---- MODULE Spec2Model ----
(***************************************************************************)
(* KilnMaster: the cloud monitor of an active firing (Code.gs in GAS.md),  *)
(* and the browser's firing lifecycle (KilnContext, MonitorPage,           *)
(* ActiveFiring, sheetService).                                            *)
(*                                                                         *)
(* Time is counted in whole minutes.  Every time constant of the monitor   *)
(* is a whole number of minutes (15 * 60 * 1000 ms, 10 * 60 * 1000 ms,     *)
(* totalDurationMins * 60 * 1000 ms), so the comparisons of monitorFirings *)
(* are modelled exactly on the minute grid; progress comparisons are done  *)
(* by cross-multiplication instead of floating-point division.             *)
(*                                                                         *)
(* A row of the ActiveFirings sheet keeps the columns the monitor decides  *)
(* on: ID, StartTime, LastNotified, TotalDuration.  ScheduleJson and Name  *)
(* only feed the text of the embeds and are left out.                      *)
(***************************************************************************)
EXTENDS Integers, Sequences, FiniteSets, TLC

VARIABLES
    now,          \* Date.now(), in minutes
    sheet,        \* the data rows of the ActiveFirings sheet, top to bottom
    sent,         \* every embed handed to broadcastEmbed, in order
    tickTime,     \* <<t>>: the latest monitorFirings run read now = t; << >>: no
                  \* run yet, or the clock of Spec has moved on since
    nextId,       \* the next fresh firing id (crypto.randomUUID())
    mon,          \* SpecRace: the position of each monitorFirings execution
    logSheet,     \* the rows appended to the Logs sheet by saveLog
    \* the browser (SpecApp)
    isAuthenticated,    \* AuthContext state
    scriptUrl,          \* AuthContext state
    kiln_script_url,    \* localStorage item
    activeSchedule,     \* KilnContext state
    startTime,          \* KilnContext state: << >> is null, <<t>> a timestamp
    logs,               \* KilnContext state
    route,              \* the router's location
    isSubmitting,       \* state of the mounted ActiveFiring
    hasStartedMonitor,  \* ref of the mounted ActiveFiring
    handlers,           \* the runs of handleComplete / handleCancel under way
    requests,           \* startMonitor requests on their way to the script
    summaries,          \* the calls of sendDiscordMessage made by the handlers
    state,              \* lifecycle of each firing: Idle, Running, Completed, Cancelled
    mounts,             \* how many times ActiveFiring has been mounted
    \* the pure functions (SpecCal)
    history,            \* the argument of calculateLocalCalibration
    calibration,        \* its result
    \* the schedule functions (SpecSched)
    draft,        \* the segments of the schedule, in order
    sinceStart,   \* the milliseconds since the start of the firing
    estimate,     \* <<m>>: calculateTheoreticalDuration returned m; << >>: not called
    chart,        \* <<points>>: calculateSchedulePoints returned points
    reading,      \* <<r>>: the temperature functions returned r
    \* the schedule generator (SpecGen)
    sampleType,   \* ScheduleEditor state
    firingStage,  \* ScheduleEditor state
    clayWeightKg, \* ScheduleEditor state clayWeight
    generated,    \* <<g>>: generateSchedule returned g; << >>: not called
    analysis,     \* <<a>>: analyzeWithExperience returned a for g's segments
    \* the webhook setting (SpecAuth)
    discordWebhook,   \* AuthContext state
    kiln_auth_data,   \* localStorage item: << >> absent, <<data>> the stored object
    settingsSheet,    \* the value of the key DiscordWebhook in the Settings sheet
    updates           \* the runs of updateWebhook under way, and what each returned

cloud == <<now, sheet, sent, tickTime, nextId, mon, logSheet>>
browser == <<isAuthenticated, scriptUrl, kiln_script_url, activeSchedule, startTime,
             logs, route, isSubmitting, hasStartedMonitor, handlers, requests,
             summaries, state, mounts>>
calibrating == <<history, calibration>>
scheduling == <<draft, sinceStart, estimate, chart, reading>>
generating == <<sampleType, firingStage, clayWeightKg, generated, analysis>>
configuring == <<discordWebhook, kiln_auth_data, settingsSheet, updates>>
calc == <<calibrating, scheduling, generating, configuring>>
vars == <<cloud, browser, calc>>

(***************************************************************************)
(* Bounds of the model.                                                    *)
(***************************************************************************)
Quantum == 5          \* the clock advances in steps of Quantum minutes
MaxTime == 120        \* the clock stops advancing here
MaxFirings == 2       \* firings started in one behaviour
MaxStart == 0         \* a firing starts no later than this minute
MaxCoarse == 30       \* coarse-polling scenario: durations up to 20 * MaxCoarse
MaxRaceTime == 20     \* SpecRace: the clock stops advancing here
MaxAppTime == 5       \* SpecApp: the clock stops advancing here
MaxAppFirings == 1    \* SpecApp: firings started in one behaviour
MaxHandlers == 2      \* SpecApp: runs of handleComplete / handleCancel under way
MaxMounts == 1        \* SpecApp: mounts of ActiveFiring in one behaviour
MaxLogs == 3          \* SpecCal: logs in a history
MaxSegments == 3      \* SpecSched: segments in a schedule
MaxClayWeight == 6    \* SpecGen: clay weight in kg
MaxUpdates == 1       \* SpecAuth: runs of updateWebhook under way

\* estimatedDurationMinutes of the schedules that are started
Durations == {0, 20, 100}

NoId == 0
FiringIds == 1..MaxFirings

(***************************************************************************)
(* monitorFirings: the decision taken for one row.                         *)
(***************************************************************************)
thresholds == <<50, 75, 90>>

NoEmbed == [id |-> NoId, title |-> "none", t |-> 0]
ProgressEmbed(id, t) == [id |-> id, title |-> "progress", t |-> t]
AlmostDoneEmbed(id) == [id |-> id, title |-> "almostDone", t |-> 0]
OverdueEmbed(id) == [id |-> id, title |-> "overdue", t |-> 0]
StartedEmbed(id) == [id |-> id, title |-> "started", t |-> 0]

\* progress >= t, with progress = (elapsedMs / (totalDurationMins * 60 * 1000)) * 100.
\* A zero duration makes progress Infinity (elapsed > 0) or NaN (elapsed = 0).
ProgressAtLeast(elapsed, total, t) ==
    IF total > 0 THEN elapsed * 100 >= t * total
    ELSE IF total = 0 THEN elapsed > 0
    ELSE elapsed * 100 <= t * total

\* Mutant: the watermark guard of the threshold test is dropped.
ThresholdReachedNoGuard(elapsed, total, lastNotified, t) ==
    ProgressAtLeast(elapsed, total, t)

\* if (progress >= t && lastNotified < t)
ThresholdReached(elapsed, total, lastNotified, t) ==
    ProgressAtLeast(elapsed, total, t) /\ lastNotified < t

\* Mutant: the near-completion test forgets its watermark guard.
NearCompletionNoGuard(remaining, lastNotified) ==
    remaining > 0 /\ remaining <= 15

\* if (remainingMs > 0 && remainingMs <= 15 * 60 * 1000 && lastNotified < 95)
NearCompletion(remaining, lastNotified) ==
    remaining > 0 /\ remaining <= 15 /\ lastNotified < 95

\* Mutant: the overrun test fires as soon as the estimate is exceeded at all
\* and is blind past the watermark 99.
OverrunOffByGuard(remaining, lastNotified) ==
    remaining < -10 /\ lastNotified < 99

\* if (remainingMs < -10 * 60 * 1000 && lastNotified < 100)
Overrun(remaining, lastNotified) ==
    remaining < -10 /\ lastNotified < 100

\* Mutant: the loop stops at the first threshold that is reached (a `break`).
RECURSIVE ProgressLoopBreak(_, _, _)
ProgressLoopBreak(k, row, acc) ==
    IF k > Len(thresholds) THEN acc
    ELSE LET t == thresholds[k]
             elapsed == acc.at - row.startTime
         IN  IF ThresholdReached(elapsed, row.total, row.lastNotified, t)
             THEN [acc EXCEPT !.embed = ProgressEmbed(row.id, t),
                              !.newNotifiedVal = t]
             ELSE ProgressLoopBreak(k + 1, row, acc)

\* for (const t of thresholds) { if (...) { embed = ...; newNotifiedVal = t; } }
RECURSIVE ProgressLoop(_, _, _)
ProgressLoop(k, row, acc) ==
    IF k > Len(thresholds) THEN acc
    ELSE LET t == thresholds[k]
             elapsed == acc.at - row.startTime
         IN  ProgressLoop(k + 1, row,
                 IF ThresholdReached(elapsed, row.total, row.lastNotified, t)
                 THEN [acc EXCEPT !.embed = ProgressEmbed(row.id, t),
                                  !.newNotifiedVal = t]
                 ELSE acc)

\* Mutant: the three blocks are chained with else-if, so the first one that
\* holds wins instead of the last.
EvaluateFirstWins(row, at) ==
    LET remaining == row.total - (at - row.startTime)
        start == [at |-> at, embed |-> NoEmbed, newNotifiedVal |-> row.lastNotified]
        afterProgress == ProgressLoop(1, row, start)
    IN  IF afterProgress.embed # NoEmbed THEN afterProgress
        ELSE IF NearCompletion(remaining, row.lastNotified)
        THEN [afterProgress EXCEPT !.embed = AlmostDoneEmbed(row.id),
                                   !.newNotifiedVal = 99]
        ELSE IF Overrun(remaining, row.lastNotified)
        THEN [afterProgress EXCEPT !.embed = OverdueEmbed(row.id),
                                   !.newNotifiedVal = 100]
        ELSE afterProgress

\* The three blocks of the loop body, each overwriting embed and newNotifiedVal.
Evaluate(row, at) ==
    LET remaining == row.total - (at - row.startTime)
        start == [at |-> at, embed |-> NoEmbed, newNotifiedVal |-> row.lastNotified]
        afterProgress == ProgressLoop(1, row, start)
        afterAlmost ==
            IF NearCompletion(remaining, row.lastNotified)
            THEN [afterProgress EXCEPT !.embed = AlmostDoneEmbed(row.id),
                                       !.newNotifiedVal = 99]
            ELSE afterProgress
    IN  IF Overrun(remaining, row.lastNotified)
        THEN [afterAlmost EXCEPT !.embed = OverdueEmbed(row.id),
                                 !.newNotifiedVal = 100]
        ELSE afterAlmost

\* if (!id) continue; ... if (embed) { broadcastEmbed(embed); setValue(newNotifiedVal) }
Emits(row, at) == row.id # NoId /\ Evaluate(row, at).embed # NoEmbed

RowAfterTick(row, at) ==
    IF Emits(row, at)
    THEN [row EXCEPT !.lastNotified = Evaluate(row, at).newNotifiedVal]
    ELSE row

RECURSIVE EmbedsOfTick(_, _)
EmbedsOfTick(rows, at) ==
    IF rows = << >> THEN << >>
    ELSE (IF Emits(Head(rows), at) THEN <<Evaluate(Head(rows), at).embed>> ELSE << >>)
         \o EmbedsOfTick(Tail(rows), at)

(***************************************************************************)
(* The handlers of Code.gs.                                                *)
(***************************************************************************)
\* One whole run of monitorFirings (the time-driven trigger).
monitorFirings ==
    /\ Len(sheet) >= 1
    /\ sheet' = [i \in 1..Len(sheet) |-> RowAfterTick(sheet[i], now)]
    /\ sent' = sent \o EmbedsOfTick(sheet, now)
    /\ tickTime' = <<now>>

\* doPost action 'startMonitor'
startCloudMonitor(id, total, startedAt) ==
    /\ sheet' = Append(sheet, [id |-> id, startTime |-> startedAt,
                               lastNotified |-> 0, total |-> total])
    /\ sent' = Append(sent, StartedEmbed(id))

RECURSIVE DeleteFirst(_, _)
DeleteFirst(rows, id) ==
    IF rows = << >> THEN << >>
    ELSE IF Head(rows).id = id THEN Tail(rows)
    ELSE <<Head(rows)>> \o DeleteFirst(Tail(rows), id)

\* doPost action 'stopMonitor'
stopCloudMonitor(id) ==
    /\ sheet' = DeleteFirst(sheet, id)

(***************************************************************************)
(* Spec: one sampler.  Firings are registered and removed by requests,     *)
(* the clock advances, and the trigger runs monitorFirings to completion.  *)
(***************************************************************************)
\* activeSchedule = null
NoSchedule == [id |-> NoId, total |-> 0]
\* no run of handleComplete / handleCancel in this slot
IdleHandler == [pc |-> "idle", kind |-> "none", sched |-> NoSchedule,
                actualDuration |-> 0, outcome |-> "none", inst |-> 0]

\* no run of updateWebhook in this slot; result is what the last run returned
IdleUpdate == [pc |-> "idle", oldWebhook |-> "", storedAuth |-> << >>, url |-> "",
               result |-> "none"]

\* KilnContext: useState<CalibrationResult>({ factor: 1.0, advice: '' }); a
\* factor is kept in thousandths, and nan tells a NaN factor
NoCalibration ==
    [factor |-> [nan |-> FALSE, milli |-> 1000],
     advice |-> [text |-> "", count |-> 0, method |-> "",
                 percentage |-> [nan |-> FALSE, value |-> 0]]]

Monitors == {"trigger", "overlap"}
IdleMonitor == [pc |-> "idle", data |-> << >>, at |-> 0, i |-> 0, val |-> 0]

Init ==
    /\ now = 0
    /\ sheet = << >>
    /\ sent = << >>
    /\ tickTime = << >>
    /\ nextId = 1
    /\ mon = [p \in Monitors |-> IdleMonitor]
    /\ logSheet = << >>
    /\ isAuthenticated = FALSE
    /\ scriptUrl = ""
    /\ kiln_script_url = ""
    /\ activeSchedule = NoSchedule
    /\ startTime = << >>
    /\ logs = << >>
    /\ route = "plan"
    /\ isSubmitting = FALSE
    /\ hasStartedMonitor = FALSE
    /\ handlers = [h \in 1..MaxHandlers |-> IdleHandler]
    /\ requests = << >>
    /\ summaries = << >>
    /\ state = [id \in FiringIds |-> "Idle"]
    /\ mounts = 0
    /\ history = << >>
    /\ calibration = NoCalibration
    /\ draft = << >>
    /\ sinceStart = 0
    /\ estimate = << >>
    /\ chart = << >>
    /\ reading = << >>
    /\ sampleType = "standard"
    /\ firingStage = "uncertain"
    /\ clayWeightKg = 0
    /\ generated = << >>
    /\ analysis = << >>
    /\ discordWebhook = ""
    /\ kiln_auth_data = << >>
    /\ settingsSheet = ""
    /\ updates = [r \in 1..MaxUpdates |-> IdleUpdate]

Advance ==
    /\ now < MaxTime
    /\ now' = now + Quantum
    /\ tickTime' = << >>
    /\ UNCHANGED <<sheet, sent, nextId, mon, logSheet, browser, calc>>

StartRequest ==
    /\ nextId <= MaxFirings
    /\ now <= MaxStart
    /\ \E total \in Durations : startCloudMonitor(nextId, total, now)
    /\ nextId' = nextId + 1
    /\ UNCHANGED <<now, tickTime, mon, logSheet, browser, calc>>

StopRequest ==
    /\ \E id \in 1..(nextId - 1) :
          /\ \E i \in 1..Len(sheet) : sheet[i].id = id
          /\ stopCloudMonitor(id)
    /\ UNCHANGED <<now, sent, tickTime, nextId, mon, logSheet, browser, calc>>

\* the time-driven trigger runs monitorFirings from its first line to its last
Trigger ==
    /\ monitorFirings
    /\ UNCHANGED <<now, nextId, mon, logSheet, browser, calc>>

Next == Advance \/ StartRequest \/ StopRequest \/ Trigger

Spec == Init /\ [][Next]_vars

(***************************************************************************)
(* SpecCoarse: coarse polling of one firing.  The clock jumps straight to  *)
(* 40% and to 95% of the estimated duration, and the trigger samples.      *)
(***************************************************************************)
CoarseDurations == {20 * k : k \in 1..MaxCoarse}
SamplePercents == {40, 95}

StartCoarse ==
    /\ nextId = 1
    /\ now = 0
    /\ \E total \in CoarseDurations : startCloudMonitor(nextId, total, now)
    /\ nextId' = nextId + 1
    /\ UNCHANGED <<now, tickTime, mon, logSheet, browser, calc>>

JumpTo ==
    /\ Len(sheet) = 1
    /\ \E pct \in SamplePercents :
          /\ (pct * sheet[1].total) \div 100 > now
          /\ now' = (pct * sheet[1].total) \div 100
    /\ UNCHANGED <<sheet, sent, tickTime, nextId, mon, logSheet, browser, calc>>

NextCoarse == StartCoarse \/ JumpTo \/ Trigger


SpecCoarse == Init /\ [][NextCoarse]_vars


(***************************************************************************)
(* SpecRace: two executions of monitorFirings overlap (Apps Script takes   *)
(* no lock), together with start and stop requests.  An execution reads    *)
(* the sheet and the clock once (getValues, Date.now), then for each row   *)
(* broadcasts and writes; its steps are the accesses to the sheet and the  *)
(* broadcasts.                                                             *)
(***************************************************************************)
RaceDurations == {20}

BlankRow == [id |-> NoId, startTime |-> 0, lastNotified |-> 0, total |-> 0]

\* sheet.getRange(i + 1, 4).setValue(v) on the sheet as it is now: row i of the
\* data rows, which need not be the row that was read; writing below the last
\* row extends the sheet with blank cells
SetLastNotified(rows, i, v) ==
    [k \in 1..(IF i > Len(rows) THEN i ELSE Len(rows)) |->
        IF k = i
        THEN [(IF k <= Len(rows) THEN rows[k] ELSE BlankRow) EXCEPT !.lastNotified = v]
        ELSE IF k <= Len(rows) THEN rows[k] ELSE BlankRow]

\* const data = sheet.getDataRange().getValues(); const now = Date.now();
MonRead(p) ==
    /\ mon[p].pc = "idle"
    /\ Len(sheet) >= 1
    /\ mon' = [mon EXCEPT ![p] = [pc |-> "row", data |-> sheet, at |-> now,
                                  i |-> 1, val |-> 0]]
    /\ UNCHANGED <<now, sheet, sent, tickTime, nextId, logSheet, browser, calc>>

\* the body of the loop for row i, up to and including broadcastEmbed(embed)
MonNotify(p) ==
    /\ mon[p].pc = "row"
    /\ LET m == mon[p]
           row == m.data[m.i]
       IN  IF Emits(row, m.at)
           THEN /\ sent' = Append(sent, Evaluate(row, m.at).embed)
                /\ mon' = [mon EXCEPT ![p].pc = "write",
                                      ![p].val = Evaluate(row, m.at).newNotifiedVal]
           ELSE /\ sent' = sent
                /\ mon' = [mon EXCEPT ![p] =
                              IF m.i < Len(m.data) THEN [m EXCEPT !.i = m.i + 1]
                              ELSE IdleMonitor]
    /\ UNCHANGED <<now, sheet, tickTime, nextId, logSheet, browser, calc>>

\* sheet.getRange(i + 1, 4).setValue(newNotifiedVal), then the next row
MonWrite(p) ==
    /\ mon[p].pc = "write"
    /\ LET m == mon[p]
       IN  /\ sheet' = SetLastNotified(sheet, m.i, m.val)
           /\ mon' = [mon EXCEPT ![p] =
                         IF m.i < Len(m.data)
                         THEN [m EXCEPT !.pc = "row", !.i = m.i + 1, !.val = 0]
                         ELSE IdleMonitor]
    /\ UNCHANGED <<now, sent, tickTime, nextId, logSheet, browser, calc>>

StartRace ==
    /\ nextId <= MaxFirings
    /\ now <= MaxStart
    /\ \E total \in RaceDurations : startCloudMonitor(nextId, total, now)
    /\ nextId' = nextId + 1
    /\ UNCHANGED <<now, tickTime, mon, logSheet, browser, calc>>

AdvanceRace ==
    /\ now < MaxRaceTime
    /\ now' = now + Quantum
    /\ UNCHANGED <<sheet, sent, tickTime, nextId, mon, logSheet, browser, calc>>

NextRace ==
    \/ AdvanceRace
    \/ StartRace
    \/ StopRequest
    \/ \E p \in Monitors : MonRead(p)
    \/ \E p \in Monitors : MonNotify(p)
    \/ \E p \in Monitors : MonWrite(p)

SpecRace == Init /\ [][NextRace]_vars


(***************************************************************************)
(* SpecApp: the browser.  The user logs in, starts a firing on the plan    *)
(* page, moves between the pages, and completes or cancels the firing on   *)
(* the monitor page.  handleComplete and handleCancel are async functions: *)
(* a run is suspended at each await, and everything between two awaits is  *)
(* one step.  The fetches of sheetService resolve whether or not the       *)
(* request reached the script (each function catches the error and returns *)
(* false, and no caller looks at the result).  saveLogToSheet writes the   *)
(* Logs sheet, which is not part of this model, and refreshData is not     *)
(* modelled: logs starts empty and changes only through addLog.            *)
(***************************************************************************)
AppDurations == {20}
Routes == {"plan", "monitor", "history"}
Outcomes == {"perfect"}

\* Mutant: the item is read under a key that login never writes
localScriptUrlWrongKey == ""

\* const scriptUrl = localStorage.getItem('kiln_script_url') || ''
localScriptUrl == kiln_script_url

\* MonitorPage renders ActiveFiring
MountedWith(auth, rt, sched, st) ==
    auth /\ rt = "monitor" /\ sched # NoSchedule /\ st # << >>

Mounted == MountedWith(isAuthenticated, route, activeSchedule, startTime)

\* The render that follows the state changes of a step.  A surviving
\* ActiveFiring keeps its state (submitting is its isSubmitting); a new one
\* starts with isSubmitting = false and runs the mount effect; an unmounted
\* one loses its state and its ref.
Commit(submitting) ==
    IF MountedWith(isAuthenticated', route', activeSchedule', startTime')
    THEN IF Mounted
         THEN /\ isSubmitting' = submitting
              /\ UNCHANGED <<hasStartedMonitor, requests, mounts>>
         ELSE /\ mounts < MaxMounts
              /\ mounts' = mounts + 1
              /\ isSubmitting' = FALSE
              /\ IF localScriptUrl' # ""
                 THEN /\ requests' = Append(requests,
                             [id |-> activeSchedule'.id, total |-> activeSchedule'.total,
                              startTime |-> startTime'[1]])
                      /\ hasStartedMonitor' = TRUE
                 ELSE /\ requests' = requests
                      /\ hasStartedMonitor' = FALSE
    ELSE /\ isSubmitting' = FALSE
         /\ hasStartedMonitor' = FALSE
         /\ UNCHANGED <<requests, mounts>>

login ==
    /\ ~isAuthenticated
    /\ isAuthenticated' = TRUE
    /\ scriptUrl' = "url"
    /\ kiln_script_url' = "url"
    /\ UNCHANGED <<activeSchedule, startTime, route, state>>
    /\ Commit(FALSE)
    /\ UNCHANGED <<logs, handlers, summaries, cloud, calc>>

logout ==
    /\ isAuthenticated
    /\ isAuthenticated' = FALSE
    /\ UNCHANGED <<scriptUrl, kiln_script_url, activeSchedule, startTime, route, state>>
    /\ Commit(FALSE)
    /\ UNCHANGED <<logs, handlers, summaries, cloud, calc>>

navigate(rt) ==
    /\ isAuthenticated
    /\ rt # route
    /\ route' = rt
    /\ UNCHANGED <<isAuthenticated, scriptUrl, kiln_script_url, activeSchedule,
                   startTime, state>>
    /\ Commit(FALSE)
    /\ UNCHANGED <<logs, handlers, summaries, cloud, calc>>

\* PlanPage: startFiring(schedule); navigate('/monitor')
startFiring(total) ==
    /\ isAuthenticated
    /\ route = "plan"
    /\ nextId <= MaxAppFirings
    /\ activeSchedule' = [id |-> nextId, total |-> total]
    /\ startTime' = <<now>>
    /\ route' = "monitor"
    /\ nextId' = nextId + 1
    /\ state' = [state EXCEPT ![nextId] = "Running"]
    /\ UNCHANGED <<isAuthenticated, scriptUrl, kiln_script_url>>
    /\ Commit(FALSE)
    /\ UNCHANGED <<logs, handlers, summaries, now, sheet, sent, tickTime, mon, logSheet, calc>>

\* the run of a handler started now on the mounted ActiveFiring; elapsed is
\* Date.now() - startTime
NewRun(kind, outcome) ==
    [pc |-> "send", kind |-> kind, sched |-> activeSchedule,
     actualDuration |-> now - startTime[1], outcome |-> outcome, inst |-> mounts]

FreeSlot(h) ==
    /\ handlers[h].pc = "idle"
    /\ \A g \in 1..(h - 1) : handlers[g].pc # "idle"

\* the message handed to sendDiscordMessage by run h
Summary(h, run) == [id |-> run.sched.id, kind |-> run.kind, by |-> h]

\* doPost action 'sendDiscord': broadcastDiscord(message)
SummaryEmbed(run) == [id |-> run.sched.id, title |-> run.kind, t |-> 0]

\* MonitorPage.handleFinish: const newLog = {...}
NewLog(run) ==
    [scheduleName |-> run.sched.id, predictedDuration |-> run.sched.total,
     actualDuration |-> run.actualDuration, outcome |-> run.outcome]

\* finishFiring() or cancelFiring(), then navigate(rt); run h is over
EndRun(h, run, rt, final) ==
    /\ activeSchedule' = NoSchedule
    /\ startTime' = << >>
    /\ route' = rt
    /\ handlers' = [handlers EXCEPT ![h] = IdleHandler]
    /\ state' = [state EXCEPT ![run.sched.id] = IF @ = "Running" THEN final ELSE @]

\* onFinish(result): MonitorPage.handleFinish up to the await inside addLog
handleFinish(h, run) ==
    IF run.sched = NoSchedule
    THEN /\ handlers' = [handlers EXCEPT ![h] = IdleHandler]
         /\ UNCHANGED <<logs, activeSchedule, startTime, route, state>>
    ELSE /\ logs' = Append(logs, NewLog(run))
         /\ IF scriptUrl # ""
            THEN /\ handlers' = [handlers EXCEPT ![h] = [run EXCEPT !.pc = "save"]]
                 /\ UNCHANGED <<activeSchedule, startTime, route, state>>
            ELSE EndRun(h, run, "history", "Completed")

\* onCancel(): cancelFiring(); navigate('/')
onCancel(h, run) ==
    /\ logs' = logs
    /\ EndRun(h, run, "plan", "Cancelled")

handleComplete(h, outcome) ==
    /\ Mounted
    /\ ~isSubmitting
    /\ FreeSlot(h)
    /\ LET run == NewRun("completed", outcome)
       IN  IF localScriptUrl # ""
           THEN /\ summaries' = Append(summaries, Summary(h, run))
                /\ handlers' = [handlers EXCEPT ![h] = run]
                /\ UNCHANGED <<logs, activeSchedule, startTime, route, state>>
           ELSE /\ summaries' = summaries
                /\ handleFinish(h, run)
    /\ UNCHANGED <<isAuthenticated, scriptUrl, kiln_script_url>>
    /\ Commit(TRUE)
    /\ UNCHANGED <<cloud, calc>>

\* the user answers the confirm() dialog with OK
handleCancel(h) ==
    /\ Mounted
    /\ ~isSubmitting
    /\ FreeSlot(h)
    /\ LET run == NewRun("aborted", "none")
       IN  IF localScriptUrl # ""
           THEN /\ summaries' = Append(summaries, Summary(h, run))
                /\ handlers' = [handlers EXCEPT ![h] = run]
                /\ UNCHANGED <<logs, activeSchedule, startTime, route, state>>
           ELSE /\ summaries' = summaries
                /\ onCancel(h, run)
    /\ UNCHANGED <<isAuthenticated, scriptUrl, kiln_script_url>>
    /\ Commit(TRUE)
    /\ UNCHANGED <<cloud, calc>>

\* how a fetch of sheetService ends: the script answers with status success,
\* it answers with an error status, or the fetch rejects (network error)
FetchOutcomes == {"ok", "status", "thrown"}

\* the ways a fetch can end when the request did, or did not, reach the script
OutcomesWhen(delivered) == {outcome \in FetchOutcomes : outcome = "ok" => delivered}

\* Mutant: the wrapper lets the network error through
sendDiscordMessageRethrows(outcome) == IF outcome = "thrown" THEN "throw" ELSE "true"

\* sheetService.sendDiscordMessage: what the awaited call gives the handler
sendDiscordMessage(outcome) == IF outcome = "thrown" THEN "false" ELSE "true"

\* sheetService.stopCloudMonitor: what the awaited call gives the handler
stopCloudMonitorResult(outcome) == IF outcome = "thrown" THEN "false" ELSE "true"

\* sheetService.saveLogToSheet: result.status === 'success', false when caught
saveLogToSheet(outcome) == IF outcome = "ok" THEN "true" ELSE "false"

\* catch (e) of handleComplete / handleCancel: setIsSubmitting(false) on the
\* ActiveFiring the run belongs to; the run is over
Catch(h) ==
    /\ handlers' = [handlers EXCEPT ![h] = IdleHandler]
    /\ isSubmitting' = IF Mounted /\ handlers[h].inst = mounts THEN FALSE
                       ELSE isSubmitting

\* await sendDiscordMessage(...) resolves; stopCloudMonitor(...) is called
SendDone(h, delivered) ==
    /\ handlers[h].pc = "send"
    /\ \E thrown \in {sendDiscordMessage(outcome) = "throw" :
                          outcome \in OutcomesWhen(delivered)} :
          IF thrown
          THEN Catch(h)
          ELSE /\ handlers' = [handlers EXCEPT ![h].pc = "stop"]
               /\ isSubmitting' = isSubmitting
    /\ sent' = IF delivered THEN Append(sent, SummaryEmbed(handlers[h])) ELSE sent
    /\ UNCHANGED <<now, sheet, tickTime, nextId, mon, logSheet, calc>>
    /\ UNCHANGED <<isAuthenticated, scriptUrl, kiln_script_url, activeSchedule,
                   startTime, logs, route, hasStartedMonitor,
                   requests, summaries, state, mounts>>

\* await stopCloudMonitor(...) resolves; onFinish(...) or onCancel() is called
StopDone(h, delivered) ==
    /\ handlers[h].pc = "stop"
    /\ UNCHANGED <<isAuthenticated, scriptUrl, kiln_script_url, summaries>>
    /\ IF delivered THEN stopCloudMonitor(handlers[h].sched.id) ELSE sheet' = sheet
    /\ \E thrown \in {stopCloudMonitorResult(outcome) = "throw" :
                          outcome \in OutcomesWhen(delivered)} :
          IF thrown
          THEN /\ Catch(h)
               /\ UNCHANGED <<logs, activeSchedule, startTime, route, state,
                              hasStartedMonitor, requests, mounts>>
          ELSE /\ IF handlers[h].kind = "completed"
                  THEN handleFinish(h, handlers[h])
                  ELSE onCancel(h, handlers[h])
               /\ Commit(isSubmitting)
    /\ UNCHANGED <<now, sent, tickTime, nextId, mon, logSheet, calc>>

\* await addLog(newLog) resolves: finishFiring(); navigate('/history').  Were
\* saveLogToSheet to throw, handleFinish would reject and stop here.
SaveDone(h) ==
    /\ handlers[h].pc = "save"
    /\ UNCHANGED <<isAuthenticated, scriptUrl, kiln_script_url, summaries>>
    /\ logs' = logs
    /\ \E saved \in BOOLEAN :
          \E thrown \in {saveLogToSheet(outcome) = "throw" : outcome \in OutcomesWhen(saved)} :
             /\ logSheet' = IF saved THEN Append(logSheet, NewLog(handlers[h]))
                            ELSE logSheet
             /\ IF thrown
                THEN /\ handlers' = [handlers EXCEPT ![h] = IdleHandler]
                     /\ UNCHANGED <<activeSchedule, startTime, route, state,
                                    isSubmitting, hasStartedMonitor, requests, mounts>>
                ELSE /\ EndRun(h, handlers[h], "history", "Completed")
                     /\ Commit(isSubmitting)
    /\ UNCHANGED <<now, sheet, sent, tickTime, nextId, mon, calc>>

Remove(seq, k) == SubSeq(seq, 1, k - 1) \o SubSeq(seq, k + 1, Len(seq))

\* a startMonitor request reaches the script
DeliverStart(k) ==
    /\ k \in 1..Len(requests)
    /\ startCloudMonitor(requests[k].id, requests[k].total, requests[k].startTime)
    /\ requests' = Remove(requests, k)
    /\ UNCHANGED <<now, tickTime, nextId, mon, logSheet, calc>>
    /\ UNCHANGED <<isAuthenticated, scriptUrl, kiln_script_url, activeSchedule,
                   startTime, logs, route, isSubmitting, hasStartedMonitor,
                   handlers, summaries, state, mounts>>

\* the fetch of a startMonitor request fails
LoseStart(k) ==
    /\ k \in 1..Len(requests)
    /\ requests' = Remove(requests, k)
    /\ UNCHANGED <<cloud, calc>>
    /\ UNCHANGED <<isAuthenticated, scriptUrl, kiln_script_url, activeSchedule,
                   startTime, logs, route, isSubmitting, hasStartedMonitor,
                   handlers, summaries, state, mounts>>

AdvanceApp ==
    /\ now < MaxAppTime
    /\ now' = now + Quantum
    /\ tickTime' = << >>
    /\ UNCHANGED <<sheet, sent, nextId, mon, logSheet, browser, calc>>

NextApp ==
    \/ login
    \/ logout
    \/ \E rt \in Routes : navigate(rt)
    \/ \E total \in AppDurations : startFiring(total)
    \/ \E h \in 1..MaxHandlers : \E outcome \in Outcomes : handleComplete(h, outcome)
    \/ \E h \in 1..MaxHandlers : handleCancel(h)
    \/ \E h \in 1..MaxHandlers : \E delivered \in BOOLEAN : SendDone(h, delivered)
    \/ \E h \in 1..MaxHandlers : \E delivered \in BOOLEAN : StopDone(h, delivered)
    \/ \E h \in 1..MaxHandlers : SaveDone(h)
    \/ \E k \in 1..MaxMounts : DeliverStart(k)
    \/ \E k \in 1..MaxMounts : LoseStart(k)
    \/ Trigger
    \/ AdvanceApp

SpecApp == Init /\ [][NextApp]_vars

(***************************************************************************)
(* SpecRemount: the user comes back to the monitor page.  The behaviours   *)
(* start where SpecApp arrives once the user has logged in, started        *)
(* firing 1 and left the monitor page: the startMonitor request of the     *)
(* first mount has reached the script, has failed, or is still on its way, *)
(* and a run of handleComplete or handleCancel begun on that page may      *)
(* still wait for sendDiscordMessage.  mounts counts the mounts from here  *)
(* on; a run of the page that was left bears inst 0.  The clock stands     *)
(* still and the trigger does not run.                                     *)
(***************************************************************************)
FirstFiring == [id |-> 1, total |-> 20]

\* the startMonitor request of the first mount
FirstRequest == [id |-> 1, total |-> 20, startTime |-> 0]

\* a run begun on the page that was left
LeftRuns ==
    {[pc |-> "send", kind |-> "completed", sched |-> FirstFiring,
      actualDuration |-> 0, outcome |-> "perfect", inst |-> 0],
     [pc |-> "send", kind |-> "aborted", sched |-> FirstFiring,
      actualDuration |-> 0, outcome |-> "none", inst |-> 0]}

InitRemount ==
    /\ now = 0
    /\ \/ /\ sheet = <<[id |-> 1, startTime |-> 0, lastNotified |-> 0, total |-> 20]>>
          /\ sent = <<StartedEmbed(1)>>
          /\ requests = << >>
       \/ /\ sheet = << >>
          /\ sent = << >>
          /\ requests \in {<< >>, <<FirstRequest>>}
    /\ tickTime = << >>
    /\ nextId = 2
    /\ mon = [p \in Monitors |-> IdleMonitor]
    /\ logSheet = << >>
    /\ isAuthenticated = TRUE
    /\ scriptUrl = "url"
    /\ kiln_script_url = "url"
    /\ activeSchedule = FirstFiring
    /\ startTime = <<0>>
    /\ logs = << >>
    /\ route \in {"plan", "history"}
    /\ isSubmitting = FALSE
    /\ hasStartedMonitor = FALSE
    /\ \/ /\ handlers = [h \in 1..MaxHandlers |-> IdleHandler]
          /\ summaries = << >>
       \/ \E run \in LeftRuns :
             /\ handlers = [h \in 1..MaxHandlers |-> IF h = 1 THEN run ELSE IdleHandler]
             /\ summaries = <<Summary(1, run)>>
    /\ state = [id \in FiringIds |-> IF id = 1 THEN "Running" ELSE "Idle"]
    /\ mounts = 0
    /\ history = << >>
    /\ calibration = NoCalibration
    /\ draft = << >>
    /\ sinceStart = 0
    /\ estimate = << >>
    /\ chart = << >>
    /\ reading = << >>
    /\ sampleType = "standard"
    /\ firingStage = "uncertain"
    /\ clayWeightKg = 0
    /\ generated = << >>
    /\ analysis = << >>
    /\ discordWebhook = ""
    /\ kiln_auth_data = << >>
    /\ settingsSheet = ""
    /\ updates = [r \in 1..MaxUpdates |-> IdleUpdate]

NextRemount ==
    \/ login
    \/ logout
    \/ \E rt \in Routes : navigate(rt)
    \/ \E h \in 1..MaxHandlers : \E outcome \in Outcomes : handleComplete(h, outcome)
    \/ \E h \in 1..MaxHandlers : handleCancel(h)
    \/ \E h \in 1..MaxHandlers : \E delivered \in BOOLEAN : SendDone(h, delivered)
    \/ \E h \in 1..MaxHandlers : \E delivered \in BOOLEAN : StopDone(h, delivered)
    \/ \E h \in 1..MaxHandlers : SaveDone(h)
    \/ \E k \in 1..(MaxMounts + 1) : DeliverStart(k)
    \/ \E k \in 1..(MaxMounts + 1) : LoseStart(k)

SpecRemount == InitRemount /\ [][NextRemount]_vars

(***************************************************************************)
(* SpecCal: calculateLocalCalibration.  A JavaScript number is modelled by *)
(* its exact value: a fraction, NaN, or an infinity.  The doubles of the   *)
(* code differ from the fractions only in the last binary digit.           *)
(***************************************************************************)
Abs(x) == IF x < 0 THEN -x ELSE x

RECURSIVE GCD(_, _)
GCD(a, b) == IF b = 0 THEN a ELSE GCD(b, a % b)

\* the fraction n / d in lowest terms, d > 0
Frac(n, d) ==
    LET g == GCD(Abs(n), Abs(d))
        sign == IF d < 0 THEN -1 ELSE 1
    IN  [n |-> sign * (n \div g), d |-> sign * (d \div g)]

Plus(a, b) == Frac(a.n * b.d + b.n * a.d, a.d * b.d)
Times(a, b) == Frac(a.n * b.n, a.d * b.d)
Less(a, b) == a.n * b.d < b.n * a.d

Zero == Frac(0, 1)
One == Frac(1, 1)

\* a number: kind "num" with value f, or "nan", "inf", "ninf"
Num(f) == [kind |-> "num", f |-> f]
NaN == [kind |-> "nan", f |-> Zero]
Infinity == [kind |-> "inf", f |-> Zero]
NegInfinity == [kind |-> "ninf", f |-> Zero]

\* a / b for integers a and b
Divide(a, b) ==
    IF b # 0 THEN Num(Frac(a, b))
    ELSE IF a = 0 THEN NaN
    ELSE IF a > 0 THEN Infinity ELSE NegInfinity

\* x > c and x < c for a number x and a fraction c; false for NaN
GreaterThan(x, c) ==
    CASE x.kind = "num" -> Less(c, x.f)
      [] x.kind = "inf" -> TRUE
      [] OTHER -> FALSE

LessThan(x, c) ==
    CASE x.kind = "num" -> Less(x.f, c)
      [] x.kind = "ninf" -> TRUE
      [] OTHER -> FALSE

\* x + y * w for numbers x, y that are fractions or NaN and a fraction w
PlusTimes(x, y, w) ==
    IF x.kind = "num" /\ y.kind = "num" THEN Num(Plus(x.f, Times(y.f, w)))
    ELSE NaN

RECURSIVE Pow(_, _)
Pow(b, k) == IF k = 0 THEN One ELSE Times(b, Pow(b, k - 1))

\* Math.round and toFixed: the nearest integer, halves upwards
Round(f) == (2 * f.n + f.d) \div (2 * f.d)

\* the logs the function is applied to: durations in minutes, the date as a
\* number; a log without theoreticalDuration has 0 there
Actuals == {0, 5, 8, 12, 15, 30}
Dates == {1, 2}
LogTypes ==
    [actualDuration : Actuals, theoreticalDuration : {10}, predictedDuration : {20},
     outcome : {"perfect"}, date : Dates]
    \cup [actualDuration : {8}, theoreticalDuration : {0}, predictedDuration : {10},
          outcome : {"perfect"}, date : {3}]
    \cup [actualDuration : {0, 12}, theoreticalDuration : {0}, predictedDuration : {0},
          outcome : {"perfect"}, date : {1}]
    \cup [actualDuration : {12}, theoreticalDuration : {10}, predictedDuration : {20},
          outcome : {"error", "failure"}, date : {1}]
Histories == UNION {[1..n -> LogTypes] : n \in 0..MaxLogs}

\* Mutant: failed firings are not filtered out
OutcomeValidErrorOnly(log) == log.outcome # "error"

\* log.outcome !== 'error' && log.outcome !== 'failure'
OutcomeValid(log) == log.outcome # "error" /\ log.outcome # "failure"

\* Array.prototype.sort with (a, b) => date(a) - date(b): stable, ascending
RECURSIVE InsertByDate(_, _)
InsertByDate(sorted, x) ==
    IF sorted = << >> THEN <<x>>
    ELSE IF Head(sorted).date <= x.date
         THEN <<Head(sorted)>> \o InsertByDate(Tail(sorted), x)
         ELSE <<x>> \o sorted

RECURSIVE SortByDate(_)
SortByDate(seq) ==
    IF seq = << >> THEN << >>
    ELSE InsertByDate(SortByDate(SubSeq(seq, 1, Len(seq) - 1)), seq[Len(seq)])

validLogs(h) == SortByDate(SelectSeq(h, OutcomeValid))

\* actual / theoretical when the log has a theoretical duration, else
\* actual / predicted
ratio(log) ==
    IF log.theoreticalDuration > 0
    THEN Divide(log.actualDuration, log.theoreticalDuration)
    ELSE Divide(log.actualDuration, log.predictedDuration)

\* Mutant: the bounds themselves are rejected too
IsOutlierClosed(x) ==
    \/ GreaterThan(x, Frac(3, 2)) \/ LessThan(x, Frac(1, 2))
    \/ (x.kind = "num" /\ x.f \in {Frac(3, 2), Frac(1, 2)})

\* if (ratio > 1.5 || ratio < 0.5) return
IsOutlier(x) == GreaterThan(x, Frac(3, 2)) \/ LessThan(x, Frac(1, 2))

base == Frac(8, 5)

\* Mutant: every log weighs the same
weightFlat(index) == One

\* Math.pow(base, index)
weight(index) == Pow(base, index)

\* validLogs.forEach((log, index) => ...): index counts from 0 over validLogs
RECURSIVE forEach(_, _, _)
forEach(valid, index, acc) ==
    IF index >= Len(valid) THEN acc
    ELSE LET r == ratio(valid[index + 1])
         IN  forEach(valid, index + 1,
                 IF IsOutlier(r) THEN acc
                 ELSE [totalWeightedRatio |->
                           PlusTimes(acc.totalWeightedRatio, r, weight(index)),
                       totalWeight |-> Plus(acc.totalWeight, weight(index))])

Totals(valid) == forEach(valid, 0, [totalWeightedRatio |-> Num(Zero), totalWeight |-> Zero])

\* totalWeightedRatio / totalWeight, totalWeight > 0
weightedFactor(t) ==
    IF t.totalWeightedRatio.kind = "num"
    THEN Num(Frac(t.totalWeightedRatio.f.n * t.totalWeight.d,
                  t.totalWeightedRatio.f.d * t.totalWeight.n))
    ELSE NaN

\* a return with factor 1 and a fixed advice
Identity(text) ==
    [factor |-> [nan |-> FALSE, milli |-> 1000],
     advice |-> [text |-> text, count |-> 0, method |-> "",
                 percentage |-> [nan |-> FALSE, value |-> 0]]]

calculateLocalCalibration(h) ==
    IF Len(h) = 0 THEN Identity("no history")
    ELSE IF Len(validLogs(h)) = 0 THEN Identity("no valid logs")
    ELSE IF Totals(validLogs(h)).totalWeight = Zero THEN Identity("all outliers")
    ELSE LET v == validLogs(h)
             wf == weightedFactor(Totals(v))
             isNum == wf.kind = "num"
             percentage == IF isNum THEN Round(Frac((wf.f.n - wf.f.d) * 100, wf.f.d))
                           ELSE 0
             method == IF \E k \in 1..Len(v) : v[k].theoreticalDuration # 0
                       THEN "theoretical" ELSE "predicted"
             text == IF isNum /\ Abs(percentage) < 1 THEN "accurate"
                     ELSE IF isNum /\ percentage > 0 THEN "slower"
                     ELSE "faster"
         IN  [factor |-> [nan |-> ~isNum,
                          milli |-> IF isNum THEN Round(Frac(wf.f.n * 1000, wf.f.d))
                                    ELSE 0],
              advice |-> [text |-> text, count |-> Len(v),
                          method |-> IF text = "accurate" THEN "" ELSE method,
                          percentage |-> [nan |-> ~isNum, value |-> Abs(percentage)]]]

InitCal ==
    /\ now = 0
    /\ sheet = << >>
    /\ sent = << >>
    /\ tickTime = << >>
    /\ nextId = 1
    /\ mon = [p \in Monitors |-> IdleMonitor]
    /\ logSheet = << >>
    /\ isAuthenticated = FALSE
    /\ scriptUrl = ""
    /\ kiln_script_url = ""
    /\ activeSchedule = NoSchedule
    /\ startTime = << >>
    /\ logs = << >>
    /\ route = "plan"
    /\ isSubmitting = FALSE
    /\ hasStartedMonitor = FALSE
    /\ handlers = [h \in 1..MaxHandlers |-> IdleHandler]
    /\ requests = << >>
    /\ summaries = << >>
    /\ state = [id \in FiringIds |-> "Idle"]
    /\ mounts = 0
    /\ history \in Histories
    /\ calibration = NoCalibration
    /\ draft = << >>
    /\ sinceStart = 0
    /\ estimate = << >>
    /\ chart = << >>
    /\ reading = << >>
    /\ sampleType = "standard"
    /\ firingStage = "uncertain"
    /\ clayWeightKg = 0
    /\ generated = << >>
    /\ analysis = << >>
    /\ discordWebhook = ""
    /\ kiln_auth_data = << >>
    /\ settingsSheet = ""
    /\ updates = [r \in 1..MaxUpdates |-> IdleUpdate]

\* Mutant: the array of the caller is sorted itself
historySortedInPlace(h) == SortByDate(h)

\* the array of the caller after the call: filter returns a new array, and
\* that one is sorted
historyAfterCall(h) == h

\* setCalibration(... calculateLocalCalibration(data.logs) ...)
Calibrate ==
    /\ calibration = NoCalibration
    /\ calibration' = calculateLocalCalibration(history)
    /\ history' = historyAfterCall(history)
    /\ UNCHANGED <<cloud, browser, scheduling, generating, configuring>>

NextCal == Calibrate

SpecCal == InitCal /\ [][NextCal]_vars

(***************************************************************************)
(* SpecSched: the schedule functions applied to a schedule of at most      *)
(* MaxSegments segments: calculateTheoreticalDuration and                  *)
(* calculateSchedulePoints of the editor, getCurrentTemp of ActiveFiring   *)
(* and calculateTemperature of the script.  Minutes are fractions, a       *)
(* duration of getCurrentTemp is a number that may be Infinity or NaN.     *)
(***************************************************************************)
\* the segments a schedule is made of; a hold has no rate, a ramp holdTime 0
Segments ==
    {[type |-> "ramp", rate |-> 100, targetTemp |-> 125, holdTime |-> 0],
     [type |-> "ramp", rate |-> 170, targetTemp |-> 125, holdTime |-> 0],
     [type |-> "ramp", rate |-> 0, targetTemp |-> 600, holdTime |-> 0],
     [type |-> "ramp", rate |-> -100, targetTemp |-> 25, holdTime |-> 0],
     [type |-> "hold", rate |-> 0, targetTemp |-> 125, holdTime |-> 30],
     [type |-> "hold", rate |-> 0, targetTemp |-> 125, holdTime |-> -10]}

Drafts == UNION {[1..n -> Segments] : n \in 0..MaxSegments}

\* elapsed times in minutes; the clock counts milliseconds
ElapsedMinutes == {0, 35, 60, 90, 1000}
MsPerMinute == 60000

\* segments.forEach of calculateTheoreticalDuration, from segment index on
RECURSIVE DurationForEach(_, _, _, _)
DurationForEach(segments, index, totalMinutes, currentTemp) ==
    IF index > Len(segments) THEN totalMinutes
    ELSE LET seg == segments[index]
         IN  IF seg.type = "ramp"
             THEN DurationForEach(segments, index + 1,
                      IF seg.rate # 0
                      THEN Plus(totalMinutes,
                                Frac(Abs(seg.targetTemp - currentTemp) * 60, Abs(seg.rate)))
                      ELSE totalMinutes,
                      seg.targetTemp)
             ELSE DurationForEach(segments, index + 1,
                      Plus(totalMinutes, Frac(seg.holdTime, 1)), currentTemp)

calculateTheoreticalDuration(segments) == Round(DurationForEach(segments, 1, Zero, 25))

\* segments.forEach of calculateSchedulePoints
RECURSIVE PointsForEach(_, _, _, _, _)
PointsForEach(segments, index, currentTemp, currentTime, points) ==
    IF index > Len(segments) THEN points
    ELSE LET seg == segments[index]
             held == Plus(currentTime, Frac(seg.holdTime, 1))
             ramped == Plus(currentTime,
                            Frac(Abs(seg.targetTemp - currentTemp) * 60, Abs(seg.rate)))
         IN  IF seg.type = "hold"
             THEN PointsForEach(segments, index + 1, currentTemp, held,
                      Append(points, [time |-> held, temp |-> currentTemp]))
             ELSE IF seg.type = "ramp" /\ seg.rate # 0
             THEN PointsForEach(segments, index + 1, seg.targetTemp, ramped,
                      Append(points, [time |-> ramped, temp |-> seg.targetTemp]))
             ELSE PointsForEach(segments, index + 1, currentTemp, currentTime, points)

calculateSchedulePoints(segments) ==
    PointsForEach(segments, 1, 25, Zero, <<[time |-> Zero, temp |-> 25]>>)

\* x * 60 and x + y for numbers
Times60(x) == IF x.kind = "num" THEN Num(Times(x.f, Frac(60, 1))) ELSE x

Add(x, y) ==
    IF x.kind = "num" /\ y.kind = "num" THEN Num(Plus(x.f, y.f))
    ELSE IF x.kind = "nan" \/ y.kind = "nan" THEN NaN
    ELSE IF x.kind = "num" THEN y
    ELSE IF y.kind = "num" \/ x.kind = y.kind THEN x
    ELSE NaN

\* seg.type === 'hold' ? seg.holdTime : (Math.abs(seg.targetTemp - currentT) / seg.rate) * 60
segDuration(seg, currentT) ==
    IF seg.type = "hold" THEN Num(Frac(seg.holdTime, 1))
    ELSE Times60(Divide(Abs(seg.targetTemp - currentT), seg.rate))

\* Math.round(currentT + (seg.targetTemp - currentT) * (timeInSeg / segDuration))
Interpolate(seg, currentT, timeInSeg, duration) ==
    IF duration.kind = "num"
    THEN Round(Plus(Frac(currentT, 1),
                    Times(Frac(seg.targetTemp - currentT, 1),
                          Frac(timeInSeg.n * duration.f.d, timeInSeg.d * duration.f.n))))
    ELSE currentT

\* the for loop of getCurrentTemp, from segment index on
RECURSIVE getCurrentTempLoop(_, _, _, _, _)
getCurrentTempLoop(segments, index, currentT, timeAccumulator, elapsedMinutes) ==
    IF index > Len(segments) THEN currentT
    ELSE LET seg == segments[index]
             duration == segDuration(seg, currentT)
             end == Add(timeAccumulator, duration)
         IN  IF GreaterThan(end, elapsedMinutes)
             THEN IF seg.type = "hold" THEN seg.targetTemp
                  ELSE Interpolate(seg, currentT,
                           Plus(elapsedMinutes, Times(Frac(-1, 1), timeAccumulator.f)),
                           duration)
             ELSE getCurrentTempLoop(segments, index + 1,
                      IF seg.type = "ramp" THEN seg.targetTemp ELSE currentT,
                      end, elapsedMinutes)

getCurrentTemp(segments, elapsedMs) ==
    getCurrentTempLoop(segments, 1, 25, Num(Zero), Frac(elapsedMs, MsPerMinute))

\* the for loop of calculateTemperature, from segment index on
RECURSIVE calculateTemperatureLoop(_, _, _, _, _)
calculateTemperatureLoop(segments, index, currentT, timeAccumulator, elapsedMinutes) ==
    IF index > Len(segments) THEN currentT
    ELSE LET seg == segments[index]
             duration == IF seg.type = "hold" THEN Num(Frac(seg.holdTime, 1))
                         ELSE Times60(Divide(Abs(seg.targetTemp - currentT), seg.rate))
         IN  IF GreaterThan(Add(timeAccumulator, duration), elapsedMinutes)
             THEN IF seg.type = "hold" THEN seg.targetTemp
                  ELSE Interpolate(seg, currentT,
                           Plus(elapsedMinutes, Times(Frac(-1, 1), timeAccumulator.f)),
                           duration)
             ELSE calculateTemperatureLoop(segments, index + 1,
                      IF seg.type = "ramp" THEN seg.targetTemp ELSE currentT,
                      Add(timeAccumulator, duration), elapsedMinutes)

calculateTemperature(schedule, elapsedMs) ==
    calculateTemperatureLoop(schedule.segments, 1, 25, Num(Zero),
                             Frac(elapsedMs, MsPerMinute))

InitSched ==
    /\ now = 0
    /\ sheet = << >>
    /\ sent = << >>
    /\ tickTime = << >>
    /\ nextId = 1
    /\ mon = [p \in Monitors |-> IdleMonitor]
    /\ logSheet = << >>
    /\ isAuthenticated = FALSE
    /\ scriptUrl = ""
    /\ kiln_script_url = ""
    /\ activeSchedule = NoSchedule
    /\ startTime = << >>
    /\ logs = << >>
    /\ route = "plan"
    /\ isSubmitting = FALSE
    /\ hasStartedMonitor = FALSE
    /\ handlers = [h \in 1..MaxHandlers |-> IdleHandler]
    /\ requests = << >>
    /\ summaries = << >>
    /\ state = [id \in FiringIds |-> "Idle"]
    /\ mounts = 0
    /\ history = << >>
    /\ calibration = NoCalibration
    /\ draft \in Drafts
    /\ sinceStart \in {m * MsPerMinute : m \in ElapsedMinutes}
    /\ estimate = << >>
    /\ chart = << >>
    /\ reading = << >>
    /\ sampleType = "standard"
    /\ firingStage = "uncertain"
    /\ clayWeightKg = 0
    /\ generated = << >>
    /\ analysis = << >>
    /\ discordWebhook = ""
    /\ kiln_auth_data = << >>
    /\ settingsSheet = ""
    /\ updates = [r \in 1..MaxUpdates |-> IdleUpdate]

\* the editor shows the duration of the segments
EstimateDuration ==
    /\ estimate = << >>
    /\ estimate' = <<calculateTheoreticalDuration(draft)>>
    /\ UNCHANGED <<cloud, browser, calibrating, generating, configuring, draft, sinceStart, chart, reading>>

\* the editor draws the chart of the segments
PlotSchedule ==
    /\ chart = << >>
    /\ chart' = <<calculateSchedulePoints(draft)>>
    /\ UNCHANGED <<cloud, browser, calibrating, generating, configuring, draft, sinceStart, estimate, reading>>

\* the monitor page and the script compute the temperature of the moment
ReadTemperature ==
    /\ reading = << >>
    /\ reading' = <<[browser |-> getCurrentTemp(draft, sinceStart),
                     script |-> calculateTemperature([segments |-> draft], sinceStart)]>>
    /\ UNCHANGED <<cloud, browser, calibrating, generating, configuring, draft, sinceStart, estimate, chart>>

NextSched == EstimateDuration \/ PlotSchedule \/ ReadTemperature

SpecSched == InitSched /\ [][NextSched]_vars

(***************************************************************************)
(* SpecGen: the schedule generator and the safety check of the editor,     *)
(* applied to every sample type, every stage and the clay weights          *)
(* 0..MaxClayWeight.  A time modifier is counted in hundredths; a warning  *)
(* or an advice is the tag of its text.                                    *)
(***************************************************************************)
SampleTypes == {"standard", "thick", "thin", "large_flat", "sculpture"}
FiringStages == {"bisque", "glaze", "uncertain"}

Ramp(rate, targetTemp) ==
    [type |-> "ramp", rate |-> rate, targetTemp |-> targetTemp, holdTime |-> 0]

Hold(targetTemp, holdTime) ==
    [type |-> "hold", rate |-> 0, targetTemp |-> targetTemp, holdTime |-> holdTime]

\* the switch of analyzeWithExperience and if (clayWeight > 5)
experienceModifier(type, clayWeight) ==
    (CASE type = "thick" -> 115
       [] type = "sculpture" -> 125
       [] type = "large_flat" -> 105
       [] type = "thin" -> 95
       [] OTHER -> 100)
    + (IF clayWeight > 5 THEN 5 ELSE 0)

\* (type === 'thick' || type === 'sculpture') && startTemp < 200 && seg.rate > 100
TooFastEarly(type, startTemp, seg) ==
    type \in {"thick", "sculpture"} /\ startTemp < 200 /\ seg.rate > 100

\* passesQuartzInversion && (type === 'large_flat' || type === 'sculpture') && seg.rate > 150
TooFastQuartz(type, startTemp, seg) ==
    /\ \/ (startTemp < 573 /\ seg.targetTemp > 573)
       \/ (startTemp > 573 /\ seg.targetTemp < 573)
    /\ type \in {"large_flat", "sculpture"}
    /\ seg.rate > 150

\* segments.forEach of analyzeWithExperience, from segment index on
RECURSIVE ExperienceForEach(_, _, _, _, _)
ExperienceForEach(type, segments, index, currentTemp, acc) ==
    IF index > Len(segments) THEN acc
    ELSE LET seg == segments[index]
             startTemp == currentTemp
             checked == seg.type = "ramp" /\ seg.rate > 0
             early == IF checked /\ TooFastEarly(type, startTemp, seg)
                      THEN <<[rule |-> "early heating too fast", segment |-> index]>>
                      ELSE << >>
             quartz == IF checked /\ TooFastQuartz(type, startTemp, seg)
                       THEN <<[rule |-> "quartz inversion too fast", segment |-> index]>>
                       ELSE << >>
             lowHold == seg.type = "hold" /\ seg.targetTemp <= 130 /\ seg.holdTime >= 30
         IN  ExperienceForEach(type, segments, index + 1,
                 IF seg.type = "ramp" THEN seg.targetTemp ELSE currentTemp,
                 [warnings |-> acc.warnings \o early \o quartz,
                  hasLowTempHold |-> acc.hasLowTempHold \/ lowHold])

analyzeWithExperience(type, segments, clayWeight) ==
    LET done == ExperienceForEach(type, segments, 1, 25,
                    [warnings |-> << >>, hasLowTempHold |-> FALSE])
    IN  [timeModifier |-> experienceModifier(type, clayWeight),
         advice |-> << >>,
         warnings |-> done.warnings \o
             (IF type \in {"thick", "sculpture"} /\ ~done.hasLowTempHold /\ Len(segments) > 0
              THEN <<[rule |-> "no low temperature hold", segment |-> 0]>>
              ELSE << >>)]

\* the switch of generateSchedule and if (clayWeight > 5)
generatorModifier(type, clayWeight) ==
    (CASE type = "thick" -> 125
       [] type = "sculpture" -> 135
       [] type = "large_flat" -> 110
       [] type = "thin" -> 90
       [] OTHER -> 100)
    + (IF clayWeight > 5 THEN 10 ELSE 0)

generatorAdvice(type, stage, clayWeight) ==
    (IF type = "standard" THEN << >> ELSE <<type>>)
    \o (IF clayWeight > 5 THEN <<"over 5 kg">> ELSE << >>)
    \o (IF stage \in {"bisque", "glaze"} THEN <<stage>> ELSE << >>)

\* Mutant: the final else does not return, the parameters stay 0
KnownStageAny(stage) == TRUE

\* stage === 'bisque' or stage === 'glaze'; else the generator returns at once
KnownStage(stage) == stage \in {"bisque", "glaze"}

\* 2. the parameters of the stage
StageParameters(type, stage) ==
    IF stage = "bisque"
    THEN [peakTemp |-> 800, peakHoldTime |-> 10,
          lowRampRate |-> IF type \in {"thick", "sculpture"} THEN 60 ELSE 100,
          midRampRate |-> IF type \in {"thick", "sculpture", "large_flat"} THEN 100 ELSE 150,
          mainRampRate |-> 180, coolRate |-> -200]
    ELSE IF stage = "glaze"
    THEN [peakTemp |-> 1240,
          peakHoldTime |-> IF type \in {"large_flat", "thick"} THEN 30 ELSE 20,
          lowRampRate |-> 120,
          midRampRate |-> IF type = "large_flat" THEN 100 ELSE 150,
          mainRampRate |-> 220, coolRate |-> -100]
    ELSE [peakTemp |-> 0, peakHoldTime |-> 0, lowRampRate |-> 0, midRampRate |-> 0,
          mainRampRate |-> 0, coolRate |-> 0]

\* 3. the segments of the schedule
BuildSegments(type, stage, q) ==
    <<Ramp(q.lowRampRate, 120)>>
    \o (IF type \in {"thick", "sculpture"} THEN <<Hold(120, 60)>> ELSE << >>)
    \o <<Ramp(q.midRampRate, 600), Ramp(q.mainRampRate, q.peakTemp)>>
    \o (IF q.peakHoldTime > 0 THEN <<Hold(q.peakTemp, q.peakHoldTime)>> ELSE << >>)
    \o <<Ramp(q.coolRate, IF stage = "glaze" /\ q.peakTemp > 1200 THEN 900 ELSE 700),
         Ramp(-9999, 25)>>

generateSchedule(type, stage, clayWeight) ==
    IF ~KnownStage(stage)
    THEN [segments |-> << >>, warnings |-> <<"choose bisque or glaze">>,
          advice |-> generatorAdvice(type, stage, clayWeight),
          estimatedDurationMinutes |-> 0, timeModifier |-> 100]
    ELSE LET segments == BuildSegments(type, stage, StageParameters(type, stage))
             timeModifier == generatorModifier(type, clayWeight)
         IN  [segments |-> segments, warnings |-> << >>,
              advice |-> generatorAdvice(type, stage, clayWeight),
              estimatedDurationMinutes |->
                  Round(Frac(calculateTheoreticalDuration(segments) * timeModifier, 100)),
              timeModifier |-> timeModifier]

InitGen ==
    /\ now = 0
    /\ sheet = << >>
    /\ sent = << >>
    /\ tickTime = << >>
    /\ nextId = 1
    /\ mon = [p \in Monitors |-> IdleMonitor]
    /\ logSheet = << >>
    /\ isAuthenticated = FALSE
    /\ scriptUrl = ""
    /\ kiln_script_url = ""
    /\ activeSchedule = NoSchedule
    /\ startTime = << >>
    /\ logs = << >>
    /\ route = "plan"
    /\ isSubmitting = FALSE
    /\ hasStartedMonitor = FALSE
    /\ handlers = [h \in 1..MaxHandlers |-> IdleHandler]
    /\ requests = << >>
    /\ summaries = << >>
    /\ state = [id \in FiringIds |-> "Idle"]
    /\ mounts = 0
    /\ history = << >>
    /\ calibration = NoCalibration
    /\ draft = << >>
    /\ sinceStart = 0
    /\ estimate = << >>
    /\ chart = << >>
    /\ reading = << >>
    /\ sampleType \in SampleTypes
    /\ firingStage \in FiringStages
    /\ clayWeightKg \in 0..MaxClayWeight
    /\ generated = << >>
    /\ analysis = << >>
    /\ discordWebhook = ""
    /\ kiln_auth_data = << >>
    /\ settingsSheet = ""
    /\ updates = [r \in 1..MaxUpdates |-> IdleUpdate]

\* generatorResult: generateSchedule(sampleType, firingStage, clayWeight)
Generate ==
    /\ generated = << >>
    /\ generated' = <<generateSchedule(sampleType, firingStage, clayWeightKg)>>
    /\ UNCHANGED <<cloud, browser, calibrating, scheduling, configuring,
                   sampleType, firingStage, clayWeightKg, analysis>>

\* generalAnalysis: analyzeWithExperience on the segments the editor took over
Analyze ==
    /\ generated # << >>
    /\ analysis = << >>
    /\ analysis' = <<analyzeWithExperience(sampleType, generated[1].segments, clayWeightKg)>>
    /\ UNCHANGED <<cloud, browser, calibrating, scheduling, configuring,
                   sampleType, firingStage, clayWeightKg, generated>>

NextGen == Generate \/ Analyze

SpecGen == InitGen /\ [][NextGen]_vars

(***************************************************************************)
(* SpecAuth: the webhook setting of AuthContext.  The user logs in and     *)
(* out, reloads the page, and saves a webhook on the settings page.        *)
(* updateWebhook is an async function: the run is suspended at the await   *)
(* of saveGlobalSetting, which writes the Settings sheet when the request  *)
(* reaches the script.                                                     *)
(***************************************************************************)
\* the urls the user enters on the settings page
Webhooks == {"a", "b"}

\* the state of the pages, which the webhook setting leaves alone
pages == <<activeSchedule, startTime, logs, route, isSubmitting, hasStartedMonitor,
           handlers, requests, summaries, state, mounts>>

\* JSON.stringify({ url, user, webhook })
AuthData(url, webhook) == [url |-> url, webhook |-> webhook]

InitAuth ==
    /\ now = 0
    /\ sheet = << >>
    /\ sent = << >>
    /\ tickTime = << >>
    /\ nextId = 1
    /\ mon = [p \in Monitors |-> IdleMonitor]
    /\ logSheet = << >>
    /\ isAuthenticated = FALSE
    /\ scriptUrl = ""
    /\ kiln_script_url = ""
    /\ activeSchedule = NoSchedule
    /\ startTime = << >>
    /\ logs = << >>
    /\ route = "plan"
    /\ isSubmitting = FALSE
    /\ hasStartedMonitor = FALSE
    /\ handlers = [h \in 1..MaxHandlers |-> IdleHandler]
    /\ requests = << >>
    /\ summaries = << >>
    /\ state = [id \in FiringIds |-> "Idle"]
    /\ mounts = 0
    /\ history = << >>
    /\ calibration = NoCalibration
    /\ draft = << >>
    /\ sinceStart = 0
    /\ estimate = << >>
    /\ chart = << >>
    /\ reading = << >>
    /\ sampleType = "standard"
    /\ firingStage = "uncertain"
    /\ clayWeightKg = 0
    /\ generated = << >>
    /\ analysis = << >>
    /\ discordWebhook = ""
    /\ kiln_auth_data = << >>
    /\ settingsSheet \in {""} \cup Webhooks
    /\ updates = [r \in 1..MaxUpdates |-> IdleUpdate]

\* login with success: handleLogin of the script answers without a webhook
authLogin ==
    /\ ~isAuthenticated
    /\ scriptUrl' = "url"
    /\ discordWebhook' = ""
    /\ isAuthenticated' = TRUE
    /\ kiln_auth_data' = <<AuthData("url", "")>>
    /\ kiln_script_url' = "url"
    /\ UNCHANGED <<cloud, pages, calibrating, scheduling, generating, settingsSheet, updates>>

authLogout ==
    /\ isAuthenticated
    /\ isAuthenticated' = FALSE
    /\ discordWebhook' = ""
    /\ kiln_auth_data' = << >>
    /\ UNCHANGED <<cloud, pages, calibrating, scheduling, generating, settingsSheet, updates,
                   scriptUrl, kiln_script_url>>

\* the page is loaded again: the runs are gone, the state starts from its
\* defaults, and the effect of AuthProvider reads kiln_auth_data
authRestore ==
    /\ updates' = [r \in 1..MaxUpdates |-> IdleUpdate]
    /\ IF kiln_auth_data # << >>
       THEN /\ scriptUrl' = kiln_auth_data[1].url
            /\ discordWebhook' = kiln_auth_data[1].webhook
            /\ isAuthenticated' = TRUE
       ELSE /\ scriptUrl' = ""
            /\ discordWebhook' = ""
            /\ isAuthenticated' = FALSE
    /\ UNCHANGED <<cloud, pages, calibrating, scheduling, generating, settingsSheet,
                   kiln_auth_data, kiln_script_url>>

\* updateWebhook(url) up to the await of saveGlobalSetting, or to its end
\* when there is no scriptUrl
updateWebhook(r, url) ==
    /\ isAuthenticated
    /\ updates[r].pc = "idle"
    /\ discordWebhook' = url
    /\ kiln_auth_data' = IF kiln_auth_data # << >>
                         THEN <<[kiln_auth_data[1] EXCEPT !.webhook = url]>>
                         ELSE kiln_auth_data
    /\ updates' = [updates EXCEPT ![r] =
                      IF scriptUrl # ""
                      THEN [pc |-> "save", oldWebhook |-> discordWebhook,
                            storedAuth |-> kiln_auth_data, url |-> url, result |-> "none"]
                      ELSE [IdleUpdate EXCEPT !.result = "false"]]
    /\ UNCHANGED <<cloud, pages, calibrating, scheduling, generating, settingsSheet,
                   isAuthenticated, scriptUrl, kiln_script_url>>

\* sheetService.saveGlobalSetting: result.status === 'success', false when caught
saveGlobalSetting(outcome) == IF outcome = "ok" THEN "true" ELSE "false"

\* await saveGlobalSetting(...) resolves; saved: the request reached the
\* script, and saveGlobalSettings wrote the value
SaveSettingDone(r, saved) ==
    /\ updates[r].pc = "save"
    /\ settingsSheet' = IF saved THEN updates[r].url ELSE settingsSheet
    /\ \E success \in {saveGlobalSetting(outcome) : outcome \in OutcomesWhen(saved)} :
          IF success = "false"
          THEN /\ discordWebhook' = updates[r].oldWebhook
               /\ updates' = [updates EXCEPT ![r] = [IdleUpdate EXCEPT !.result = "false"]]
          ELSE /\ discordWebhook' = discordWebhook
               /\ updates' = [updates EXCEPT ![r] = [IdleUpdate EXCEPT !.result = "true"]]
    /\ UNCHANGED <<cloud, pages, calibrating, scheduling, generating, kiln_auth_data,
                   isAuthenticated, scriptUrl, kiln_script_url>>

NextAuth ==
    \/ authLogin
    \/ authLogout
    \/ authRestore
    \/ \E r \in 1..MaxUpdates : \E url \in Webhooks : updateWebhook(r, url)
    \/ \E r \in 1..MaxUpdates : \E saved \in BOOLEAN : SaveSettingDone(r, saved)

SpecAuth == InitAuth /\ [][NextAuth]_vars

(***************************************************************************)
(* Vocabulary of the properties.                                           *)
(***************************************************************************)
Elapsed(row, at) == at - row.startTime
Remaining(row, at) == row.total - Elapsed(row, at)

RECURSIVE Count(_, _)
Count(seq, e) ==
    IF seq = << >> THEN 0
    ELSE (IF Head(seq) = e THEN 1 ELSE 0) + Count(Tail(seq), e)

\* the embeds broadcast by the step
NewEmbeds == SubSeq(sent', Len(sent) + 1, Len(sent'))

RECURSIVE EmbedsFor(_, _)
EmbedsFor(seq, id) ==
    IF seq = << >> THEN << >>
    ELSE (IF Head(seq).id = id THEN <<Head(seq)>> ELSE << >>) \o EmbedsFor(Tail(seq), id)

Milestone(e) == e.title \in {"progress", "almostDone", "overdue"}

\* the thresholds the progress has reached, whatever the watermark
ReachedThresholds(row, at) ==
    {thresholds[k] : k \in {j \in 1..Len(thresholds) :
                               ProgressAtLeast(Elapsed(row, at), row.total, thresholds[j])}}

Max(S) == CHOOSE x \in S : \A y \in S : y <= x

\* t is newly reached by the tick at `at`, and no higher threshold is
NewlyReached(row, at, t) ==
    /\ row.id # NoId
    /\ ReachedThresholds(row, at) # {}
    /\ t = Max(ReachedThresholds(row, at))
    /\ row.lastNotified < t

(***************************************************************************)
(* C1.  Over any sequence of ticks of one firing (one sampler, sample      *)
(* times non-decreasing), the LastNotified watermark of the firing's row   *)
(* never decreases.                                                        *)
(***************************************************************************)
C1_WatermarkNeverDecreases ==
    [][\A i \in 1..Len(sheet) : \A j \in 1..Len(sheet') :
          sheet[i].id = sheet'[j].id
              => sheet'[j].lastNotified >= sheet[i].lastNotified]_vars

\* a firing whose watermark went 0 -> 50 -> 99 -> 100
C1_Witness ==
    \E i \in 1..Len(sheet) :
        /\ sheet[i].lastNotified = 100
        /\ EmbedsFor(sent, sheet[i].id) =
              <<StartedEmbed(sheet[i].id), ProgressEmbed(sheet[i].id, 50),
                AlmostDoneEmbed(sheet[i].id), OverdueEmbed(sheet[i].id)>>

(***************************************************************************)
(* C2.  Two monitor executions poll the same row and interleave their      *)
(* read, notify and write steps: no milestone event is broadcast twice and *)
(* the persisted watermark never drops below a value already written.      *)
(* (That no event is missed is not needed to refute the claim.)            *)
(***************************************************************************)
NoMilestoneTwice(embeds) ==
    \A k \in 1..Len(embeds) : \A l \in 1..Len(embeds) :
        (k # l /\ Milestone(embeds[k])) => embeds[k] # embeds[l]

C2_CompareAndSet ==
    [][/\ NoMilestoneTwice(sent')
       /\ \A i \in 1..Len(sheet) : \A j \in 1..Len(sheet') :
             (sheet[i].id # NoId /\ sheet[i].id = sheet'[j].id)
                 => sheet'[j].lastNotified >= sheet[i].lastNotified]_vars

(***************************************************************************)
(* C3.  Watermark 0, previous sample at 40%, this sample at 95%.           *)
(* Original claim: the tick broadcasts exactly one embed, the 90% progress *)
(* report, whatever the estimated duration.                                *)
(***************************************************************************)
CoarseJumpTick ==
    /\ monitorFirings
    /\ Len(sheet) = 1
    /\ sheet[1].lastNotified = 0
    /\ tickTime # << >>
    /\ tickTime[1] * 100 = 40 * sheet[1].total
    /\ now * 100 = 95 * sheet[1].total

C3_Original_JumpEmitsNinety ==
    [][CoarseJumpTick => NewEmbeds = <<ProgressEmbed(sheet[1].id, 90)>>]_vars

(***************************************************************************)
(* C3 as amended.  The tick broadcasts exactly one embed: the 90% progress *)
(* report when more than 15 minutes remain at 95% (estimated duration over *)
(* 300 minutes), and the "almost done" reminder, with watermark 99, when   *)
(* 15 minutes or less remain.                                              *)
(***************************************************************************)
C3_JumpEmitsOne ==
    [][CoarseJumpTick =>
          IF Remaining(sheet[1], now) > 15
          THEN /\ NewEmbeds = <<ProgressEmbed(sheet[1].id, 90)>>
               /\ sheet'[1].lastNotified = 90
          ELSE /\ NewEmbeds = <<AlmostDoneEmbed(sheet[1].id)>>
               /\ sheet'[1].lastNotified = 99]_vars

C3_Witness ==
    /\ Len(sheet) = 1
    /\ now * 100 = 95 * sheet[1].total
    /\ tickTime = <<now>>
    /\ sheet[1].lastNotified = 90
    /\ sent = <<StartedEmbed(sheet[1].id), ProgressEmbed(sheet[1].id, 90)>>

(***************************************************************************)
(* C4.  Original claim: a threshold t that is newly reached in a tick      *)
(* (progress >= t, watermark < t, no higher threshold reached) has its     *)
(* report broadcast in that tick, the tick sets the watermark to t, and    *)
(* the report for t is broadcast exactly once over the firing.             *)
(***************************************************************************)
ReportedOnce(embeds) ==
    \A id \in FiringIds : \A k \in 1..Len(thresholds) :
        Count(embeds, ProgressEmbed(id, thresholds[k])) <= 1

C4_Original_ThresholdFiresOnce ==
    [][/\ monitorFirings =>
            \A i \in 1..Len(sheet) : \A k \in 1..Len(thresholds) :
                NewlyReached(sheet[i], now, thresholds[k])
                    => /\ Count(NewEmbeds, ProgressEmbed(sheet[i].id, thresholds[k])) = 1
                       /\ sheet'[i].lastNotified = thresholds[k]
       /\ ReportedOnce(sent')]_vars

(***************************************************************************)
(* C4 as amended.  The same, for a tick in which neither the               *)
(* near-completion condition (0 < remaining <= 15 min) nor the overrun     *)
(* condition (remaining < -10 min) holds: then the report for t is         *)
(* broadcast in that tick and the watermark becomes t.  In every case the  *)
(* report for a threshold is broadcast at most once over the firing.       *)
(***************************************************************************)
PlainTick(row, at) ==
    /\ ~(Remaining(row, at) > 0 /\ Remaining(row, at) <= 15)
    /\ ~(Remaining(row, at) < -10)

C4_ThresholdFiresOnce ==
    [][/\ monitorFirings =>
            \A i \in 1..Len(sheet) : \A k \in 1..Len(thresholds) :
                (NewlyReached(sheet[i], now, thresholds[k]) /\ PlainTick(sheet[i], now))
                    => /\ EmbedsFor(NewEmbeds, sheet[i].id)
                             = <<ProgressEmbed(sheet[i].id, thresholds[k])>>
                       /\ sheet'[i].lastNotified = thresholds[k]
       /\ ReportedOnce(sent')]_vars

\* the 75% report went out once, the watermark is 75, and a later tick has run
C4_Witness ==
    \E i \in 1..Len(sheet) :
        /\ sheet[i].lastNotified = 75
        /\ Count(sent, ProgressEmbed(sheet[i].id, 75)) = 1
        /\ tickTime = <<now>>
        /\ Elapsed(sheet[i], now) * 100 >= 80 * sheet[i].total
        /\ sheet[i].total > 0

(***************************************************************************)
(* C5.  A tick broadcasts at most one embed per firing.  The embed is that *)
(* of the last condition that holds in the order progress thresholds,      *)
(* near-completion, overrun, and the watermark written is the value of     *)
(* that same condition; a tick in which no condition holds broadcasts      *)
(* nothing for the firing and leaves its watermark as it was.              *)
(***************************************************************************)
HeldThresholds(row, at) ==
    {t \in ReachedThresholds(row, at) : row.lastNotified < t}
NearHolds(row, at) ==
    Remaining(row, at) > 0 /\ Remaining(row, at) <= 15 /\ row.lastNotified < 95
OverrunHolds(row, at) ==
    Remaining(row, at) < -10 /\ row.lastNotified < 100

LastConditionEmbed(row, at) ==
    IF OverrunHolds(row, at) THEN <<OverdueEmbed(row.id)>>
    ELSE IF NearHolds(row, at) THEN <<AlmostDoneEmbed(row.id)>>
    ELSE IF HeldThresholds(row, at) # {}
         THEN <<ProgressEmbed(row.id, Max(HeldThresholds(row, at)))>>
    ELSE << >>

LastConditionValue(row, at) ==
    IF OverrunHolds(row, at) THEN 100
    ELSE IF NearHolds(row, at) THEN 99
    ELSE IF HeldThresholds(row, at) # {} THEN Max(HeldThresholds(row, at))
    ELSE row.lastNotified

C5_OneEmbedPerTick ==
    [][monitorFirings =>
          \A i \in 1..Len(sheet) :
              /\ Len(EmbedsFor(NewEmbeds, sheet[i].id)) <= 1
              /\ EmbedsFor(NewEmbeds, sheet[i].id) = LastConditionEmbed(sheet[i], now)
              /\ sheet'[i].lastNotified = LastConditionValue(sheet[i], now)]_vars

\* a tick in which a threshold and the near-completion condition both held:
\* only the reminder went out
C5_Witness ==
    \E i \in 1..Len(sheet) :
        /\ tickTime = <<now>>
        /\ sheet[i].total = 100
        /\ Elapsed(sheet[i], now) = 90
        /\ sheet[i].lastNotified = 99
        /\ EmbedsFor(sent, sheet[i].id)
              = <<StartedEmbed(sheet[i].id), AlmostDoneEmbed(sheet[i].id)>>

(***************************************************************************)
(* C6.  In every tick where 0 < remaining <= 15 min and the watermark is   *)
(* below 95, the "almost done" reminder is broadcast and the watermark     *)
(* becomes 99; over the ticks of one firing the reminder is broadcast at   *)
(* most once.                                                              *)
(***************************************************************************)
C6_AlmostDoneOnce ==
    [][/\ monitorFirings =>
            \A i \in 1..Len(sheet) :
                (/\ sheet[i].id # NoId
                 /\ Remaining(sheet[i], now) > 0
                 /\ Remaining(sheet[i], now) <= 15
                 /\ sheet[i].lastNotified < 95)
                    => /\ Count(NewEmbeds, AlmostDoneEmbed(sheet[i].id)) = 1
                       /\ sheet'[i].lastNotified = 99
       /\ \A id \in FiringIds : Count(sent', AlmostDoneEmbed(id)) <= 1]_vars

\* the reminder went out at exactly 15 minutes remaining, and a later tick,
\* still inside the last 15 minutes, has run
C6_Witness ==
    \E i \in 1..Len(sheet) :
        /\ sheet[i].lastNotified = 99
        /\ Count(sent, AlmostDoneEmbed(sheet[i].id)) = 1
        /\ tickTime = <<now>>
        /\ Remaining(sheet[i], now) > 0
        /\ Remaining(sheet[i], now) <= 15

(***************************************************************************)
(* C7.  In every tick where remaining < -10 min and the watermark is below *)
(* 100, the "overdue" notice is broadcast and the watermark becomes 100;   *)
(* once the watermark is 100 no later tick broadcasts anything for the     *)
(* firing and the watermark stays 100.                                     *)
(***************************************************************************)
C7_OverdueIsFinal ==
    [][/\ monitorFirings =>
            \A i \in 1..Len(sheet) :
                (/\ sheet[i].id # NoId
                 /\ Remaining(sheet[i], now) < -10
                 /\ sheet[i].lastNotified < 100)
                    => /\ Count(NewEmbeds, OverdueEmbed(sheet[i].id)) = 1
                       /\ sheet'[i].lastNotified = 100
       /\ \A i \in 1..Len(sheet) :
            sheet[i].lastNotified = 100
                => /\ EmbedsFor(NewEmbeds, sheet[i].id) = << >>
                   /\ \A j \in 1..Len(sheet') :
                         sheet'[j].id = sheet[i].id => sheet'[j].lastNotified = 100]_vars

\* the notice went out, and a tick has run later than the first overdue minute
C7_Witness ==
    \E i \in 1..Len(sheet) :
        /\ sheet[i].lastNotified = 100
        /\ Count(sent, OverdueEmbed(sheet[i].id)) = 1
        /\ tickTime = <<now>>
        /\ Remaining(sheet[i], now) < -10 - Quantum

(***************************************************************************)
(* Vocabulary of the lifecycle properties.                                 *)
(***************************************************************************)
Terminal == {"Completed", "Cancelled"}

\* the firing leaves Running in this step
Terminates(id) == state[id] = "Running" /\ state'[id] \in Terminal

\* run h ends in this step
RunEnds(h) == handlers[h].pc # "idle" /\ handlers'[h].pc = "idle"

KindOf(final) == IF final = "Completed" THEN "completed" ELSE "aborted"

SummariesOf(id, h) ==
    {k \in 1..Len(summaries) : summaries[k].id = id /\ summaries[k].by = h}

LogsOf(seq, id) == {k \in 1..Len(seq) : seq[k].scheduleName = id}

(***************************************************************************)
(* C8.  Once a firing is Completed or Cancelled no monitor tick emits a    *)
(* milestone event for it, also when the stop-monitor request fails or a   *)
(* tick interleaves with the transition.  (A tick that emits for the       *)
(* firing has sampled it, so this is the weaker half of the claim.)        *)
(***************************************************************************)
C8_NoMilestoneAfterTerminal ==
    [][\A id \in FiringIds :
          state[id] \in Terminal =>
              \A k \in 1..Len(NewEmbeds) :
                  ~(NewEmbeds[k].id = id /\ Milestone(NewEmbeds[k]))]_vars

(***************************************************************************)
(* C9.  Every transition Running -> Completed and Running -> Cancelled is  *)
(* made by a handler run that has handed exactly one summary of that kind  *)
(* for that firing to sendDiscordMessage.                                  *)
(***************************************************************************)
C9_TerminalEmitsSummary ==
    [][\A id \in FiringIds :
          Terminates(id) =>
              \E h \in 1..MaxHandlers :
                  /\ RunEnds(h)
                  /\ handlers[h].sched.id = id
                  /\ Cardinality(SummariesOf(id, h)) = 1
                  /\ \A k \in SummariesOf(id, h) :
                        summaries[k].kind = KindOf(state'[id])]_vars

\* a cancelled firing whose stop request may have failed, and a summary sent
C9_Witness ==
    /\ state[1] = "Cancelled"
    /\ activeSchedule = NoSchedule
    /\ summaries = <<[id |-> 1, kind |-> "aborted", by |-> 1]>>

(***************************************************************************)
(* C10.  Every firing that leaves Running, by completion or cancellation,  *)
(* has added exactly one FiringLog, and the logs recorded before are       *)
(* still there, unchanged.                                                 *)
(***************************************************************************)
C10_OneLogPerFiring ==
    [][/\ \A id \in FiringIds :
             Terminates(id) => Cardinality(LogsOf(logs', id)) = 1
       /\ Len(logs') >= Len(logs)
       /\ SubSeq(logs', 1, Len(logs)) = logs]_vars

Calibrated == calibration # NoCalibration

FactorOne == [nan |-> FALSE, milli |-> 1000]

\* the duration the actual duration of a log is compared with
Baseline(log) ==
    IF log.theoreticalDuration > 0 THEN log.theoreticalDuration
    ELSE log.predictedDuration

Excluded(log) == log.outcome \in {"error", "failure"}

\* 0.5 < actual / baseline < 1.5, and 0.5 <= actual / baseline <= 1.5
StrictlyInside(log) ==
    /\ Baseline(log) > 0
    /\ Baseline(log) < 2 * log.actualDuration
    /\ 2 * log.actualDuration < 3 * Baseline(log)

Inside(log) ==
    /\ Baseline(log) > 0
    /\ Baseline(log) <= 2 * log.actualDuration
    /\ 2 * log.actualDuration <= 3 * Baseline(log)

\* the same logs in the same chronological order, dated 1, 2, ...
Redate(seq) == [k \in 1..Len(seq) |-> [seq[k] EXCEPT !.date = k]]

Reverse(seq) == [k \in 1..Len(seq) |-> seq[Len(seq) + 1 - k]]

InsertAt(seq, pos, x) == SubSeq(seq, 1, pos) \o <<x>> \o SubSeq(seq, pos + 1, Len(seq))

(***************************************************************************)
(* C12.  For every history, also with logs whose baseline or actual        *)
(* duration is 0, the returned factor is a finite number and the advice is *)
(* not empty.                                                              *)
(***************************************************************************)
C12_FactorFinite ==
    Calibrated => (~calibration.factor.nan /\ calibration.advice.text # "")

(***************************************************************************)
(* C13.  The factor is exactly 1 for an empty history, for a history of    *)
(* error and failure logs only, and for a history whose remaining logs are *)
(* all rejected as outliers; the advice of the all-outliers case differs   *)
(* from the advice of the no-valid-logs case.                              *)
(***************************************************************************)
AllOutliers ==
    /\ \E k \in 1..Len(history) : ~Excluded(history[k])
    /\ \A k \in 1..Len(history) :
          ~Excluded(history[k]) =>
              \/ 2 * history[k].actualDuration > 3 * Baseline(history[k])
              \/ 2 * history[k].actualDuration < Baseline(history[k])

C13_DegenerateIdentity ==
    Calibrated =>
        /\ (\A k \in 1..Len(history) : Excluded(history[k])) =>
              calibration.factor = FactorOne
        /\ AllOutliers =>
              /\ calibration.factor = FactorOne
              /\ calibration.advice #
                     calculateLocalCalibration(
                         <<[actualDuration |-> 12, theoreticalDuration |-> 10,
                            predictedDuration |-> 20, outcome |-> "error",
                            date |-> 1]>>).advice

\* a valid log of ratio 3, a failed firing and a valid log of ratio 0
C13_Witness ==
    /\ Calibrated
    /\ AllOutliers
    /\ Len(history) = 3
    /\ history[1].actualDuration = 30 /\ Baseline(history[1]) = 10
    /\ history[2].outcome = "failure"
    /\ history[3].actualDuration = 0 /\ Baseline(history[3]) = 10
    /\ calibration.advice.text = "all outliers"

(***************************************************************************)
(* C14.  When every log of the history has a ratio strictly between 0.5    *)
(* and 1.5, one further log of ratio 3.0 at any chronological position     *)
(* (before all logs, between two logs, after all logs) leaves the returned *)
(* factor unchanged.                                                       *)
(***************************************************************************)
OutlierLog ==
    [actualDuration |-> 30, theoreticalDuration |-> 10, predictedDuration |-> 20,
     outcome |-> "perfect", date |-> 1]

Tight == \A k \in 1..Len(history) : ~Excluded(history[k]) /\ StrictlyInside(history[k])

WithOutlierAt(pos) == Redate(InsertAt(SortByDate(history), pos, OutlierLog))

C14_OutlierLeavesFactor ==
    (Calibrated /\ Tight) =>
        \A pos \in 0..Len(history) :
            calculateLocalCalibration(WithOutlierAt(pos)).factor = calibration.factor

(***************************************************************************)
(* C15.  The k-th log that survives the outlier rejection, counted from 0  *)
(* in chronological order, has weight 1.6^k whether or not rejected logs   *)
(* lie between the survivors, and the returned factor is the weighted mean *)
(* of the surviving ratios (rounded to three decimals).                    *)
(***************************************************************************)
Survives(log) == ~Excluded(log) /\ Inside(log)

Survivors == SelectSeq(SortByDate(history), Survives)

RECURSIVE RatioSum(_, _)
RatioSum(s, k) ==
    IF k >= Len(s) THEN Zero
    ELSE Plus(Times(Frac(s[k + 1].actualDuration, Baseline(s[k + 1])), Pow(Frac(8, 5), k)),
              RatioSum(s, k + 1))

RECURSIVE WeightSum(_, _)
WeightSum(s, k) ==
    IF k >= Len(s) THEN Zero
    ELSE Plus(Pow(Frac(8, 5), k), WeightSum(s, k + 1))

SurvivorMean ==
    Frac(RatioSum(Survivors, 0).n * WeightSum(Survivors, 0).d,
         RatioSum(Survivors, 0).d * WeightSum(Survivors, 0).n)

C15_SurvivorPositionWeights ==
    (/\ Calibrated
     /\ Survivors # << >>
     /\ \A k \in 1..Len(history) :
           ~Excluded(history[k]) =>
               (Baseline(history[k]) > 0 \/ history[k].actualDuration > 0)) =>
        calibration.factor =
            [nan |-> FALSE, milli |-> Round(Times(SurvivorMean, Frac(1000, 1)))]

(***************************************************************************)
(* C16.  As stated: for valid logs whose ratios are not all equal,         *)
(* reversing their chronological order changes the returned factor.        *)
(***************************************************************************)
SameRatio(a, b) == a.actualDuration * Baseline(b) = b.actualDuration * Baseline(a)

RatioBelow(a, b) == a.actualDuration * Baseline(b) < b.actualDuration * Baseline(a)

Reversed == Redate(Reverse(SortByDate(history)))

Chronological == SortByDate(history)

Monotone ==
    \/ \A k \in 1..(Len(history) - 1) : RatioBelow(Chronological[k], Chronological[k + 1])
    \/ \A k \in 1..(Len(history) - 1) : RatioBelow(Chronological[k + 1], Chronological[k])

Contributes(log) ==
    calculateLocalCalibration(<<log>>).advice # Identity("all outliers").advice

C17_Original_OpenInterval ==
    Calibrated =>
        \A k \in 1..Len(history) :
            (~Excluded(history[k]) /\ Contributes(history[k])) => StrictlyInside(history[k])

(***************************************************************************)
(* C17, amended.  A log contributes exactly when its ratio is neither      *)
(* greater than 1.5 nor smaller than 0.5: the ratios 0.5 and 1.5 are kept, *)
(* ratios outside [0.5, 1.5] are discarded, and the undefined ratio 0 / 0  *)
(* passes the test as well.                                                *)
(***************************************************************************)
C17_ClosedInterval ==
    Calibrated =>
        \A k \in 1..Len(history) :
            ~Excluded(history[k]) =>
                (Contributes(history[k]) <=>
                    \/ Inside(history[k])
                    \/ (Baseline(history[k]) = 0 /\ history[k].actualDuration = 0))

\* one log of ratio exactly 1.5 gives the factor 1.5
C17_Witness ==
    /\ Calibrated
    /\ Len(history) = 1
    /\ history[1].actualDuration = 15 /\ Baseline(history[1]) = 10
    /\ ~Excluded(history[1])
    /\ calibration.factor = [nan |-> FALSE, milli |-> 1500]

(***************************************************************************)
(* C18.  For a non-empty schedule both temperature functions return 25 at  *)
(* elapsed time 0, and the target temperature of the last segment at every *)
(* later elapsed time at or beyond the theoretical duration of the         *)
(* schedule.                                                               *)
(***************************************************************************)
LastTarget == draft[Len(draft)].targetTemp

C18_TemperatureEndpoints ==
    (reading # << >> /\ draft # << >>) =>
        \A r \in {reading[1].browser, reading[1].script} :
            /\ sinceStart = 0 => r = 25
            /\ (/\ sinceStart > 0
                /\ sinceStart >= calculateTheoreticalDuration(draft) * MsPerMinute) =>
                  r = LastTarget

(***************************************************************************)
(* C19.  The time of the last vertex of calculateSchedulePoints, rounded   *)
(* to a whole minute, equals calculateTheoreticalDuration of the same      *)
(* segments, also when a ramp has rate 0.                                  *)
(***************************************************************************)
LastVertex == chart[1][Len(chart[1])]

C19_PointsMatchDuration ==
    chart # << >> => Round(LastVertex.time) = calculateTheoreticalDuration(draft)

(***************************************************************************)
(* C20.  A ramp with rate 0 and a hold with a negative holdTime add        *)
(* nothing to the total of calculateTheoreticalDuration: the duration is   *)
(* never negative and never smaller than the duration of the same segments *)
(* with the time of the malformed ones taken as zero.                      *)
(***************************************************************************)
Malformed(seg) ==
    \/ seg.type = "ramp" /\ seg.rate = 0
    \/ seg.type = "hold" /\ seg.holdTime < 0

\* the same segments, a malformed hold holding for 0 minutes
ZeroTime(segments) ==
    [k \in 1..Len(segments) |->
        IF Malformed(segments[k]) THEN [segments[k] EXCEPT !.holdTime = 0]
        ELSE segments[k]]

C20_MalformedAddsNothing ==
    estimate # << >> =>
        /\ estimate[1] >= 0
        /\ estimate[1] >= calculateTheoreticalDuration(ZeroTime(draft))

(***************************************************************************)
(* C21.  For every sample type and clay weight, generateSchedule with the  *)
(* stage 'uncertain' returns no segments, at least one warning and the     *)
(* estimated duration 0.                                                   *)
(***************************************************************************)
C21_UncertainStageIsEmpty ==
    (generated # << >> /\ firingStage = "uncertain") =>
        /\ generated[1].segments = << >>
        /\ generated[1].warnings # << >>
        /\ generated[1].estimatedDurationMinutes = 0

C21_Witness ==
    /\ generated # << >>
    /\ firingStage = "uncertain"
    /\ sampleType = "sculpture"
    /\ clayWeightKg = 6
    /\ Len(generated[1].warnings) = 1

(***************************************************************************)
(* C25.  For bisque and for glaze, the schedule generated for a thick or a *)
(* sculpture sample has a strictly slower ramp from 25 to 120 degrees and  *)
(* a strictly longer hold at the peak than the schedule generated for a    *)
(* standard sample of the same stage.                                      *)
(***************************************************************************)
LowZoneRate(g) == g.segments[1].rate

PeakOf(g) ==
    CHOOSE t \in {g.segments[k].targetTemp : k \in 1..Len(g.segments)} :
        \A k \in 1..Len(g.segments) : g.segments[k].targetTemp <= t

PeakHold(g) ==
    LET k == CHOOSE i \in 1..Len(g.segments) :
                 g.segments[i].type = "hold" /\ g.segments[i].targetTemp = PeakOf(g)
    IN  g.segments[k].holdTime

C25_ThickIsSlowerAndLonger ==
    (/\ generated # << >>
     /\ firingStage \in {"bisque", "glaze"}
     /\ sampleType \in {"thick", "sculpture"}) =>
        LET standard == generateSchedule("standard", firingStage, clayWeightKg)
        IN  /\ LowZoneRate(generated[1]) < LowZoneRate(standard)
            /\ PeakHold(generated[1]) > PeakHold(standard)

(***************************************************************************)
(* C29.  For every sample type, bisque or glaze, and every clay weight,    *)
(* analyzeWithExperience finds no warning in the segments generateSchedule *)
(* returned for the same sample type.                                      *)
(***************************************************************************)
C29_GeneratedScheduleIsSafe ==
    (analysis # << >> /\ firingStage \in {"bisque", "glaze"}) =>
        analysis[1].warnings = << >>

(***************************************************************************)
(* Vocabulary of the overlapping executions of monitorFirings.             *)
(***************************************************************************)
\* execution p takes a step
Steps(p) == mon'[p] # mon[p]

\* the row execution p is evaluating, as it read it
Evaluated(p) == mon[p].data[mon[p].i]

\* the sheet holds the same firings in the same rows as when p read it
SameLayout(p) ==
    /\ Len(sheet) = Len(mon[p].data)
    /\ \A k \in 1..Len(sheet) : sheet[k].id = mon[p].data[k].id

(***************************************************************************)
(* C22.  In every execution of monitorFirings the watermark of a firing    *)
(* changes exactly when the execution has sent a notification for that     *)
(* firing: the step that evaluates a row, and sends if there is an event,  *)
(* leaves the sheet unchanged, and the write that follows a send changes   *)
(* the watermark of the firing that was notified.                          *)
(***************************************************************************)
C22_WatermarkChangesIffNotified ==
    [][\A p \in Monitors :
          /\ (Steps(p) /\ mon[p].pc = "row") => sheet' = sheet
          /\ (Steps(p) /\ mon[p].pc = "write" /\ SameLayout(p)) =>
                /\ Emits(Evaluated(p), mon[p].at)
                /\ sheet'[mon[p].i].id = Evaluated(p).id
                /\ sheet'[mon[p].i].lastNotified # sheet[mon[p].i].lastNotified]_vars

(***************************************************************************)
(* C27.  An execution of monitorFirings that overlaps a stopMonitor or a   *)
(* startMonitor request for another firing writes a watermark only into    *)
(* the record of the firing it evaluated: every other row of the sheet is  *)
(* the same after the write, and no row is added.                          *)
(***************************************************************************)
C27_WritesOwnRecordOnly ==
    [][\A p \in Monitors :
          (/\ Steps(p)
           /\ mon[p].pc = "write"
           /\ \E k \in 1..Len(sheet) : sheet[k].id = Evaluated(p).id) =>
              /\ Len(sheet') = Len(sheet)
              /\ \A k \in 1..Len(sheet) :
                    sheet'[k] # sheet[k] => sheet[k].id = Evaluated(p).id]_vars

(***************************************************************************)
(* C23.  The temperature functions walk the timeline of                    *)
(* calculateTheoreticalDuration, also through a ramp with a negative rate: *)
(* a ramp takes |target - start| / |rate| * 60 minutes, and at a time      *)
(* inside a ramp, a cooldown included, the temperature is the linear       *)
(* interpolation between the start and the target of the ramp.             *)
(***************************************************************************)
\* a schedule as the editor makes it: no ramp of rate 0, no negative hold
WellFormed(segments) == \A k \in 1..Len(segments) : ~Malformed(segments[k])

\* the minutes a segment occupies on the timeline of the duration
TimelineMinutes(seg, from) ==
    IF seg.type = "ramp" THEN Frac(Abs(seg.targetTemp - from) * 60, Abs(seg.rate))
    ELSE Frac(seg.holdTime, 1)

\* the segment of the timeline that holds the minute at: its index (0 past
\* the end), the minute and the temperature it starts with
RECURSIVE TimelineAt(_, _, _, _, _)
TimelineAt(segments, index, from, begin, at) ==
    IF index > Len(segments) THEN [index |-> 0, from |-> from, begin |-> begin]
    ELSE LET seg == segments[index]
             end == Plus(begin, TimelineMinutes(seg, from))
         IN  IF Less(at, end) THEN [index |-> index, from |-> from, begin |-> begin]
             ELSE TimelineAt(segments, index + 1,
                      IF seg.type = "ramp" THEN seg.targetTemp ELSE from, end, at)

C23_TemperatureFollowsTimeline ==
    (reading # << >> /\ WellFormed(draft)) =>
        LET at == Frac(sinceStart, MsPerMinute)
            here == TimelineAt(draft, 1, 25, Zero, at)
            seg == draft[here.index]
            minutes == TimelineMinutes(seg, here.from)
            sofar == Plus(at, Times(Frac(-1, 1), here.begin))
            expected == Round(Plus(Frac(here.from, 1),
                                   Times(Frac(seg.targetTemp - here.from, 1),
                                         Frac(sofar.n * minutes.d, sofar.d * minutes.n))))
        IN  (here.index # 0 /\ seg.type = "ramp") =>
                /\ reading[1].browser = expected
                /\ reading[1].script = expected

(***************************************************************************)
(* C24.  For logs with pairwise distinct timestamps the factor of          *)
(* calculateLocalCalibration is the same for every order of the input      *)
(* array, and the call leaves the order and the contents of the input      *)
(* array as they were.                                                     *)
(***************************************************************************)
DistinctDates(seq) == \A j, k \in 1..Len(seq) : seq[j].date = seq[k].date => j = k

\* the orders of an array of n elements
Orders(n) == {f \in [1..n -> 1..n] : \A j, k \in 1..n : f[j] = f[k] => j = k}

Reorder(seq, f) == [k \in 1..Len(seq) |-> seq[f[k]]]

OrderIsIrrelevant(seq) ==
    DistinctDates(seq) =>
        \A f \in Orders(Len(seq)) :
            calculateLocalCalibration(Reorder(seq, f)).factor =
                calculateLocalCalibration(seq).factor

C24_OrderIndependentAndPure ==
    [][(calibration = NoCalibration /\ calibration' # NoCalibration) =>
          /\ history' = history
          /\ calibration'.factor = calculateLocalCalibration(history').factor
          /\ OrderIsIrrelevant(history)]_vars

\* calibrated from three logs of three dates, the newest first and the
\* oldest last in the array, and the array is still in that order; dated by
\* their place in the array the same logs give another factor
C24_Witness ==
    /\ Calibrated
    /\ Len(history) = 3
    /\ DistinctDates(history)
    /\ \A k \in 1..3 : Survives(history[k])
    /\ history[1].date > history[2].date /\ history[2].date > history[3].date
    /\ calibration.factor = calculateLocalCalibration(Reverse(history)).factor
    /\ calibration.factor # calculateLocalCalibration(Redate(history)).factor

(***************************************************************************)
(* C26.  The ActiveFirings sheet never holds two rows of one firing, and   *)
(* a stopMonitor request that removes a row of a firing leaves no row of   *)
(* that firing, also when ActiveFiring is unmounted and mounted again      *)
(* while the firing runs.                                                  *)
(***************************************************************************)
RowsOf(rows, id) == {k \in 1..Len(rows) : rows[k].id = id}

C26_OneRowPerFiring ==
    [][\A id \in FiringIds :
          /\ Cardinality(RowsOf(sheet', id)) <= 1
          /\ Cardinality(RowsOf(sheet', id)) < Cardinality(RowsOf(sheet, id)) =>
                RowsOf(sheet', id) = {}]_vars

(***************************************************************************)
(* C28.  While a run of handleComplete or handleCancel for a firing waits  *)
(* for its requests, a further click starts no second run: no two runs of  *)
(* one firing are under way, and a firing gets at most one final           *)
(* notification and at most one log.                                       *)
(***************************************************************************)
RunsOf(id) == {h \in 1..MaxHandlers : handlers[h].pc # "idle" /\ handlers[h].sched.id = id}

FinalsOf(id) == {k \in 1..Len(summaries) : summaries[k].id = id}

C28_OneRunPerFiring ==
    \A id \in FiringIds :
        /\ Cardinality(RunsOf(id)) <= 1
        /\ Cardinality(FinalsOf(id)) <= 1
        /\ Cardinality(LogsOf(logs, id)) <= 1

(***************************************************************************)
(* C30.  When saveGlobalSetting fails inside updateWebhook, the call       *)
(* returns false with the webhook rolled back everywhere: discordWebhook   *)
(* and the item kiln_auth_data of localStorage are what they were before   *)
(* the call.                                                               *)
(***************************************************************************)
\* run r resumes after a failed saveGlobalSetting and returns false
ReturnsFalse(r) ==
    /\ updates[r].pc = "save"
    /\ updates'[r].pc = "idle"
    /\ updates'[r].result = "false"

C30_WebhookRolledBack ==
    [][\A r \in 1..MaxUpdates :
          ReturnsFalse(r) =>
              /\ discordWebhook' = updates[r].oldWebhook
              /\ kiln_auth_data' = updates[r].storedAuth]_vars

====
